---- MODULE Spec2Model ----
(***************************************************************************)
(* A model of the enumeration core of caspailleur: the intent miner        *)
(* (list_intents_via_LCM), the key / passkey enumerator (list_keys), the   *)
(* stable-extent enumerator (list_stable_extents_via_gsofia), the proper   *)
(* premise and pseudo-intent enumerators and the lattice order             *)
(* (sort_intents_inclusion).                                               *)
(*                                                                         *)
(* Conventions.  Attributes are 0 .. NAttrs-1 as in the code.  An M-set    *)
(* (bitarray / frozenset of attributes) is a subset of Attrs, an O-set a   *)
(* subset of the object positions.  Python lists are sequences; TLA+       *)
(* sequences are 1-based, so position p of a sequence models Python index  *)
(* p-1, and every stored "index" (intent index, insertion index) is the    *)
(* Python index plus one.  A Python dict is a sequence of <<key, value>>   *)
(* pairs in insertion order.                                               *)
(***************************************************************************)
EXTENDS Integers, Sequences, FiniteSets, TLC

\* Bounds of the model: the largest number of objects and the number of attributes.
NObjs == 3
NAttrs == 4

Attrs == 0 .. (NAttrs - 1)
MSets == SUBSET Attrs

VARIABLES
    pc,              \* which operation is running, and where it stands
    itemsets,        \* the context: one M-set per object
    intents,         \* the intent list handed to the operation under study
    only_passkeys,   \* list_keys: the only_passkeys flag
    keys_dict,       \* list_keys: dict key -> intent index, in insertion order
    attrs_to_test,   \* list_keys: the work queue (deque)
    passkey_sizes,   \* list_keys: smallest key size found per intent
    min_supp,        \* list_intents_via_LCM: the minimum support
    lcm_out,         \* list_intents_via_LCM: what the call produced
    attribute_extents,     \* gSofia: the attribute extents, in the order supplied
    min_delta_stability,   \* gSofia: the stability threshold
    g_min_supp,            \* gSofia: the support threshold
    n_stable_extents,      \* gSofia: the cap, or None
    n_projected,           \* gSofia: how many attribute extents are projected
    stable_extents,        \* gSofia: dict extent -> (delta, children), in insertion order
    premises,          \* the proper premises emitted by iter_proper_premises_via_keys
    keys_intent_map,   \* list_pseudo_intents_via_keys: the (premise, intent index) pairs supplied
    n_consumed,        \* list_pseudo_intents_via_keys: how many pairs are consumed
    pseudo_intents,    \* list_pseudo_intents_via_keys: the list of (key, saturated premise, index)
    new_prem,          \* saturate: the set to saturate
    impls,             \* saturate: the rules (key, premise, intent index)
    intents_,          \* saturate: the intent list
    saturated,         \* saturate: the value returned
    saturated_again,   \* saturate: the value returned on the value returned
    lattice,           \* sort_intents_inclusion: the value returned
    extents,           \* list_keys_for_extents: the extents, in the order supplied
    attr_extents,      \* list_keys_for_extents: the attribute extents
    testing_stack,     \* list_keys_for_extents: the work stack (deque)
    keys_for_extents,  \* list_keys_for_extents: the value returned
    description,       \* closure: the attribute set to close
    closure_out,       \* closure: what the call produced
    data,              \* transpose_context: the context supplied
    transposed,        \* transpose_context: what the call on data produced
    transposed_twice,  \* transpose_context: what the call on that result produced
    parents,           \* distributivity_index: the lower covers of each intent
    n_trans_parents,   \* distributivity_index: the number of comparable pairs
    intent_idx,        \* distributivity_index: how many intents the loop has visited
    n_distr,           \* distributivity_index: the pairs counted so far
    distributivity     \* distributivity_index: <<n_distr, n_pairs>> of the value returned

ctxVars == <<itemsets, intents>>
keysVars == <<only_passkeys, keys_dict, attrs_to_test, passkey_sizes>>
lcmVars == <<min_supp, lcm_out>>
gsofiaVars == <<attribute_extents, min_delta_stability, g_min_supp, n_stable_extents,
                n_projected, stable_extents>>
basesVars == <<premises, keys_intent_map, n_consumed, pseudo_intents>>
satVars == <<new_prem, impls, intents_, saturated, saturated_again>>
extVars == <<extents, attr_extents, testing_stack, keys_for_extents>>
closureVars == <<description, closure_out>>
ioVars == <<data, transposed, transposed_twice>>
indexVars == <<parents, n_trans_parents, intent_idx, n_distr, distributivity>>
vars == <<pc, ctxVars, keysVars, lcmVars, gsofiaVars, basesVars, satVars, lattice, extVars,
          closureVars, ioVars, indexVars>>

\* what each operation leaves alone
notKeys == <<lcmVars, gsofiaVars, basesVars, satVars, lattice, extVars, closureVars, ioVars, indexVars>>
notLcm == <<keysVars, gsofiaVars, basesVars, satVars, lattice, extVars, closureVars, ioVars, indexVars>>
notGsofia == <<ctxVars, keysVars, lcmVars, basesVars, satVars, lattice, extVars, closureVars, ioVars, indexVars>>
notBases == <<lcmVars, gsofiaVars, satVars, lattice, extVars, closureVars, ioVars, indexVars>>
notSat == <<ctxVars, keysVars, lcmVars, gsofiaVars, basesVars, lattice, extVars, closureVars, ioVars, indexVars>>
notOrder == <<keysVars, lcmVars, gsofiaVars, basesVars, satVars, extVars, closureVars, ioVars, indexVars>>
notExt == <<lcmVars, gsofiaVars, basesVars, satVars, lattice, closureVars, ioVars, indexVars>>
notClosure == <<intents, keysVars, lcmVars, gsofiaVars, basesVars, satVars, lattice, extVars, ioVars, indexVars>>
notIo == <<ctxVars, keysVars, lcmVars, gsofiaVars, basesVars, satVars, lattice, extVars, closureVars, indexVars>>
notIndex == <<keysVars, lcmVars, gsofiaVars, basesVars, satVars, lattice, extVars, closureVars, ioVars>>

\* the values of the variables an operation does not use
KeysIdle ==
    only_passkeys = FALSE /\ keys_dict = <<>> /\ attrs_to_test = <<>> /\ passkey_sizes = <<>>
LcmIdle == min_supp = 0 /\ lcm_out = <<>>
GsofiaIdle ==
    /\ attribute_extents = <<>> /\ min_delta_stability = 0 /\ g_min_supp = 0
    /\ n_stable_extents = 0 /\ n_projected = 0 /\ stable_extents = <<>>
BasesIdle ==
    premises = <<>> /\ keys_intent_map = <<>> /\ n_consumed = 0 /\ pseudo_intents = <<>>
SatIdle == new_prem = {} /\ impls = <<>> /\ intents_ = <<>> /\ saturated = {} /\ saturated_again = {}
OrderIdle == lattice = <<>>
ExtIdle ==
    extents = <<>> /\ attr_extents = <<>> /\ testing_stack = <<>> /\ keys_for_extents = <<>>
ClosureIdle == description = {} /\ closure_out = <<>>
IoIdle == data = <<>> /\ transposed = <<>> /\ transposed_twice = <<>>
IndexIdle ==
    /\ parents = <<>> /\ n_trans_parents = 0 /\ intent_idx = 0 /\ n_distr = 0
    /\ distributivity = <<>>

----------------------------------------------------------------------------
(* Generic helpers: minima, sums, sorted index lists, dict lookups.        *)

SetMin(S) == CHOOSE x \in S : \A y \in S : x <= y
SetMax(S) == CHOOSE x \in S : \A y \in S : y <= x
MinOf(a, b) == IF a <= b THEN a ELSE b
MaxOf(a, b) == IF a >= b THEN a ELSE b
Range(s) == {s[i] : i \in DOMAIN s}

\* list(el.itersearch(1)): the indices of the set bits, ascending
RECURSIVE IndexList(_)
IndexList(A) ==
    IF A = {} THEN <<>> ELSE LET m == SetMin(A) IN <<m>> \o IndexList(A \ {m})

\* Python's list comparison s < t
RECURSIVE ListLess(_, _)
ListLess(s, t) ==
    IF t = <<>> THEN FALSE
    ELSE IF s = <<>> THEN TRUE
    ELSE IF Head(s) # Head(t) THEN Head(s) < Head(t)
    ELSE ListLess(Tail(s), Tail(t))

DictKeys(d) == {d[i][1] : i \in DOMAIN d}
DictHas(d, k) == \E i \in DOMAIN d : d[i][1] = k
DictGet(d, k) == d[CHOOSE i \in DOMAIN d : d[i][1] = k][2]

\* isets2bas([[m] for m in range(n_attrs)], n_attrs)[m]
single_attrs(m) == {m}

----------------------------------------------------------------------------
(* The Galois connection of the context, as the mathematics defines it.    *)
(* The claims are stated against these.                                    *)

Extent(ctx, B) == {g \in DOMAIN ctx : B \subseteq ctx[g]}
Intent(ctx, G) == {m \in Attrs : \A g \in G : m \in ctx[g]}
Closure(ctx, B) == Intent(ctx, Extent(ctx, B))
ClosedSets(ctx) == {B \in MSets : Closure(ctx, B) = B}

\* The contexts drawn: up to NObjs objects.  The closed sets, the supports and
\* every operation modelled depend on the rows as a multiset only, so the rows
\* are drawn in non-decreasing order of their bit codes.
RECURSIVE Code(_)
Code(A) == IF A = {} THEN 0 ELSE LET m == SetMax(A) IN 2 ^ m + Code(A \ {m})

Contexts ==
    UNION {{c \in [1 .. n -> MSets] : \A i \in 1 .. (n - 1) : Code(c[i]) <= Code(c[i + 1])}
           : n \in 0 .. NObjs}

\* All permutations of Attrs, as functions Attrs -> Attrs
AttrPerms == {p \in [Attrs -> Attrs] : \A a, b \in Attrs : p[a] = p[b] => a = b}

\* S as a sequence ordered by size, ties ordered by the index list under the
\* attribute relabelling p: one of the orders "sorted by non-decreasing cardinality"
RECURSIVE AscendingSeq(_, _)
AscendingSeq(S, p) ==
    IF S = {} THEN <<>>
    ELSE LET Key(A) == IndexList({p[m] : m \in A})
             first == CHOOSE A \in S : \A B \in S \ {A} :
                         \/ Cardinality(A) < Cardinality(B)
                         \/ Cardinality(A) = Cardinality(B) /\ ListLess(Key(A), Key(B))
         IN <<first>> \o AscendingSeq(S \ {first}, p)

\* The complete intent lists of a context in ascending order
SortedIntentLists(ctx) == {AscendingSeq(ClosedSets(ctx), p) : p \in AttrPerms}

----------------------------------------------------------------------------
(* list_keys / list_passkeys                                               *)

\* no requirement on the order
AnyOrder(ints) == TRUE
\* the assert of list_keys, sort_intents_inclusion, list_pseudo_intents_via_keys
IsAscending(ints) ==
    \A i \in 1 .. (Len(ints) - 1) : Cardinality(ints[i]) <= Cardinality(ints[i + 1])

\* attrs_descendants[m]: the positions of the intents that contain m
attrs_descendants(ints, m) == {i \in DOMAIN ints : m \in ints[i]}

\* common_descendants: the intents that contain every attribute of attrs
common_descendants(ints, attrs) ==
    {i \in DOMAIN ints : \A m \in attrs : i \in attrs_descendants(ints, m)}

\* common_descendants.index(True): the position of the first such intent
MeetLast(cd) == SetMax(cd)
meet_intent_idx(cd) == SetMin(cd)

\* line 325: some attrs \ {m} is not a recorded key
SubsetNotKey(kd, attrs) == \E m \in attrs : ~DictHas(kd, attrs \ single_attrs(m))

\* line 337: a smaller key of the meet intent is already known
NeverTooBig(sizes, meet, attrs) == FALSE
PasskeyTooBig(sizes, meet, attrs) == sizes[meet] < Cardinality(attrs)

\* line 341: some attrs \ {m} is a key of the same intent
SubsetSameIntent(kd, attrs, meet) ==
    \E m \in attrs : DictGet(kd, attrs \ single_attrs(m)) = meet

\* attrs extended by each attribute it lacks, smaller ones included
ExtensionsByAny(attrs) ==
    LET RECURSIVE Up(_)
        Up(m) == IF m >= NAttrs THEN <<>>
                 ELSE IF m \in attrs THEN Up(m + 1)
                 ELSE <<attrs \cup single_attrs(m)>> \o Up(m + 1)
    IN Up(0)
\* line 348-349: attrs | m_ba for m_ba in single_attrs[max_attr_idx+1:]
Extensions(attrs) ==
    LET max_attr_idx == IF attrs = {} THEN -1 ELSE SetMax(attrs)
        n == NAttrs - (max_attr_idx + 1)
    IN [k \in 1 .. n |-> attrs \cup single_attrs(max_attr_idx + k)]

\* the state list_keys starts its loop in
ListKeysInit(ints, flag) ==
    [kd |-> <<(<<{}, 1>>)>>,
     queue |-> [k \in 1 .. NAttrs |-> single_attrs(k - 1)],
     sizes |-> [i \in DOMAIN ints |-> NAttrs]]

\* the iteration without the subset test of line 325, the test of line 341
\* looking at the recorded subsets only
ListKeysIterUnchecked(ints, flag, st) ==
    LET attrs == Head(st.queue)
        rest  == [st EXCEPT !.queue = Tail(st.queue)]
        cd    == common_descendants(ints, attrs)
    IN IF cd = {} THEN rest
       ELSE LET meet == meet_intent_idx(cd) IN
            IF flag /\ PasskeyTooBig(st.sizes, meet, attrs) THEN rest
            ELSE IF \E m \in attrs : /\ DictHas(st.kd, attrs \ single_attrs(m))
                                     /\ DictGet(st.kd, attrs \ single_attrs(m)) = meet
                 THEN rest
            ELSE [kd |-> Append(st.kd, <<attrs, meet>>),
                  sizes |-> IF flag THEN [st.sizes EXCEPT ![meet] = Cardinality(attrs)]
                            ELSE st.sizes,
                  queue |-> IF ints[meet] # Attrs
                            THEN rest.queue \o Extensions(attrs)
                            ELSE rest.queue]
\* one iteration of the while loop of list_keys, on the state st
ListKeysIter(ints, flag, st) ==
    LET attrs == Head(st.queue)
        rest  == [st EXCEPT !.queue = Tail(st.queue)]
        cd    == common_descendants(ints, attrs)
    IN IF SubsetNotKey(st.kd, attrs) THEN rest
       ELSE IF cd = {} THEN rest
       ELSE LET meet == meet_intent_idx(cd) IN
            IF flag /\ PasskeyTooBig(st.sizes, meet, attrs) THEN rest
            ELSE IF SubsetSameIntent(st.kd, attrs, meet) THEN rest
            ELSE [kd |-> Append(st.kd, <<attrs, meet>>),
                  sizes |-> IF flag THEN [st.sizes EXCEPT ![meet] = Cardinality(attrs)]
                            ELSE st.sizes,
                  queue |-> IF ints[meet] # Attrs
                            THEN rest.queue \o Extensions(attrs)
                            ELSE rest.queue]

\* list_keys run to its return value
RECURSIVE ListKeysLoop(_, _, _)
ListKeysLoop(ints, flag, st) ==
    IF st.queue = <<>> THEN st.kd ELSE ListKeysLoop(ints, flag, ListKeysIter(ints, flag, st))
list_keys(ints, flag) == ListKeysLoop(ints, flag, ListKeysInit(ints, flag))

----------------------------------------------------------------------------
(* The key enumerator as a state machine: one step per loop iteration.     *)

KeysInit ==
    /\ itemsets \in Contexts
    /\ intents \in SortedIntentLists(itemsets)
    /\ only_passkeys \in BOOLEAN
    /\ pc = "list_keys"
    /\ keys_dict = ListKeysInit(intents, only_passkeys).kd
    /\ attrs_to_test = ListKeysInit(intents, only_passkeys).queue
    /\ passkey_sizes = ListKeysInit(intents, only_passkeys).sizes
    /\ LcmIdle /\ GsofiaIdle /\ BasesIdle /\ SatIdle /\ OrderIdle /\ ExtIdle /\ ClosureIdle /\ IoIdle /\ IndexIdle

ListKeysStep ==
    /\ pc = "list_keys"
    /\ attrs_to_test # <<>>
    /\ LET st == ListKeysIter(intents, only_passkeys,
                              [kd |-> keys_dict, queue |-> attrs_to_test, sizes |-> passkey_sizes])
       IN /\ keys_dict' = st.kd
          /\ attrs_to_test' = st.queue
          /\ passkey_sizes' = st.sizes
    /\ UNCHANGED <<pc, ctxVars, only_passkeys, notKeys>>

ListKeysReturn ==
    /\ pc = "list_keys"
    /\ attrs_to_test = <<>>
    /\ pc' = "keys_done"
    /\ UNCHANGED <<ctxVars, keysVars, notKeys>>

KeysNext == ListKeysStep \/ ListKeysReturn

SpecKeys == KeysInit /\ [][KeysNext]_vars

----------------------------------------------------------------------------
(* Claims about list_keys / list_passkeys                                   *)

\* the keys (minimal generators) of the context, by definition
IsKey(ctx, A) == \A m \in A : Closure(ctx, A \ {m}) # Closure(ctx, A)
TrueKeys(ctx) == {A \in MSets : IsKey(ctx, A)}
PosOf(ints, B) == CHOOSE i \in DOMAIN ints : ints[i] = B

\* C1: list_keys on the complete ascending intents returns a map whose key set is
\* exactly the minimal generators of the context, each once, every key mapped to
\* the index of its closure.
C1_ListKeysExact ==
    (pc = "keys_done" /\ ~only_passkeys) =>
        /\ DictKeys(keys_dict) = TrueKeys(itemsets)
        /\ Len(keys_dict) = Cardinality(DictKeys(keys_dict))
        /\ \A i \in DOMAIN keys_dict :
              /\ keys_dict[i][2] \in DOMAIN intents
              /\ intents[keys_dict[i][2]] = Closure(itemsets, keys_dict[i][1])

\* a finished run that recorded a key of two attributes and a key of three
C1_Witness ==
    /\ pc = "keys_done" /\ ~only_passkeys
    /\ \E i, j \in DOMAIN keys_dict :
          /\ Cardinality(keys_dict[i][1]) = 2
          /\ Cardinality(keys_dict[j][1]) = 3
          /\ keys_dict[i][2] # keys_dict[j][2]
    /\ \E A \in MSets : Cardinality(A) = 2 /\ ~IsKey(itemsets, A)

\* every recorded key less one of its attributes is a recorded key
KeyMapClosed(kd) == \A A \in DictKeys(kd) : \A m \in A : DictHas(kd, A \ {m})

\* the candidate about to be popped has a one-attribute-removed subset that
\* is not recorded
CandidateLacksSubset ==
    /\ pc = "list_keys"
    /\ attrs_to_test # <<>>
    /\ SubsetNotKey(keys_dict, Head(attrs_to_test))

\* C20: at every step of list_keys and of list_passkeys, and in the result,
\* the key map is closed under removing one attribute from a key; a candidate
\* with a one-attribute-removed subset that is not recorded is not recorded.
C20_KeyMapSubsetClosed ==
    /\ []KeyMapClosed(keys_dict)
    /\ [][CandidateLacksSubset => keys_dict' = keys_dict]_vars

\* a run that has recorded a key of two attributes and is about to pop a
\* candidate one of whose subsets was found not to be a key
C20_Witness ==
    /\ CandidateLacksSubset
    /\ \E A \in DictKeys(keys_dict) : Cardinality(A) = 2
    /\ \E m \in Head(attrs_to_test) :
          /\ ~DictHas(keys_dict, Head(attrs_to_test) \ {m})
          /\ ~IsKey(itemsets, Head(attrs_to_test) \ {m})

\* C21 as stated: at every step of list_keys, every candidate in the work
\* queue has all of its strict subsets recorded in the key map.
C21_QueueSubsetsRecorded ==
    pc = "list_keys" =>
        \A k \in DOMAIN attrs_to_test :
            \A B \in SUBSET attrs_to_test[k] : B # attrs_to_test[k] => DictHas(keys_dict, B)

\* C21 amended: at every step of list_keys, every candidate in the work queue
\* is a recorded key extended by one attribute larger than all of its own:
\* the candidate less its largest attribute is recorded, and so is every
\* subset of that; the other subsets are tested when the candidate is popped.
C21_QueueParentRecorded ==
    pc = "list_keys" =>
        \A k \in DOMAIN attrs_to_test :
            /\ attrs_to_test[k] # {}
            /\ \A B \in SUBSET (attrs_to_test[k] \ {SetMax(attrs_to_test[k])}) :
                  DictHas(keys_dict, B)

\* a queue holding a candidate of two attributes one of whose attributes is
\* not a key and is not recorded
C21_Witness ==
    /\ pc = "list_keys"
    /\ \E k \in DOMAIN attrs_to_test : \E m \in attrs_to_test[k] :
          /\ Cardinality(attrs_to_test[k]) = 2
          /\ ~DictHas(keys_dict, {m})
          /\ ~IsKey(itemsets, {m})

\* the smallest size of a key of the intent at position i
MinKeySize(ctx, ints, i) ==
    SetMin({Cardinality(A) : A \in {B \in TrueKeys(ctx) : Closure(ctx, B) = ints[i]}})

\* C2: list_passkeys returns exactly the entries of list_keys whose key has the
\* minimum cardinality among the keys of the same intent.
C2_PasskeysExact ==
    (pc = "keys_done" /\ only_passkeys) =>
        LET all == list_keys(intents, FALSE)
            want == {all[i] : i \in {j \in DOMAIN all :
                        Cardinality(all[j][1]) = MinKeySize(itemsets, intents, all[j][2])}}
        IN /\ Range(keys_dict) = want
           /\ Len(keys_dict) = Cardinality(want)

\* a finished passkey run on a context where some intent has keys of two sizes
C2_Witness ==
    /\ pc = "keys_done" /\ only_passkeys
    /\ \E A \in TrueKeys(itemsets) :
          /\ ~DictHas(keys_dict, A)
          /\ \E B \in DictKeys(keys_dict) :
                Closure(itemsets, B) = Closure(itemsets, A) /\ Cardinality(B) < Cardinality(A)

----------------------------------------------------------------------------
(* topological_sorting and list_intents_via_LCM                            *)

\* the sort key of topological_sorting: a sorts before b when
\* (-a.count(), list(a.itersearch(1))) < (-b.count(), list(b.itersearch(1)))
KeyLess(a, b) ==
    \/ -Cardinality(a) < -Cardinality(b)
    \/ -Cardinality(a) = -Cardinality(b) /\ ListLess(IndexList(a), IndexList(b))

\* sorted(elements, key=...): a stable sort, the first smallest element first
RECURSIVE SortedByKey(_)
SortedByKey(elements) ==
    IF elements = <<>> THEN <<>>
    ELSE LET i == CHOOSE k \in DOMAIN elements :
                     /\ \A j \in DOMAIN elements : ~KeyLess(elements[j], elements[k])
                     /\ \A j \in 1 .. (k - 1) : KeyLess(elements[k], elements[j])
             others == [j \in 1 .. (Len(elements) - 1) |->
                            IF j < i THEN elements[j] ELSE elements[j + 1]]
         IN <<elements[i]>> \o SortedByKey(others)

\* topological_sorting(elements): <<ars_topsort, orig_to_topsort_indices_map>>;
\* the dict bitars_idx_map keeps the last position of an element
topological_sorting(elements) ==
    LET ars_topsort == SortedByKey(elements)
        bitars_idx_map(el) == SetMax({i \in DOMAIN ars_topsort : ars_topsort[i] = el})
    IN <<ars_topsort, [i \in DOMAIN elements |-> bitars_idx_map(elements[i])]>>

\* A set as a sequence, by ascending bit code
RECURSIVE SeqOfSet(_)
SeqOfSet(S) ==
    IF S = {} THEN <<>>
    ELSE LET first == CHOOSE A \in S : \A B \in S : Code(A) <= Code(B)
         IN <<first>> \o SeqOfSet(S \ {first})

\* LCM(min_supp=k).fit_transform(...)['itemset'] of scikit-mine, the external miner:
\* every non-empty closed itemset of support >= k.  Its output order is not
\* specified; the caller sorts it under a key that tells all itemsets apart.
LCM_fit_transform(ctx, k) ==
    SeqOfSet({B \in ClosedSets(ctx) \ {{}} : Cardinality(Extent(ctx, B)) >= k})

\* reduce(bitarray.__and__, itemsets, ~bazeros(n_attrs))
smallest_intent(ctx) == {m \in Attrs : \A g \in DOMAIN ctx : m \in ctx[g]}

\* sum(itemset.all() for itemset in itemsets)
biggest_intent_support(ctx) == Cardinality({g \in DOMAIN ctx : ctx[g] = Attrs})

\* list_intents_via_LCM(itemsets, min_supp) for an integer min_supp: the list
\* returned, or the exception raised by indexing an empty list
list_intents_via_LCM(ctx, supp) ==
    IF ctx = <<>> THEN [err |-> "IndexError", intents |-> <<>>]       \* line 38
    ELSE
    LET mined == topological_sorting(LCM_fit_transform(ctx, MaxOf(supp, 1)))[1]
        with_top ==
            IF biggest_intent_support(ctx) >= supp /\ mined[Len(mined)] # Attrs
            THEN Append(mined, Attrs) ELSE mined
        with_bottom ==
            IF with_top[1] # smallest_intent(ctx)
            THEN <<smallest_intent(ctx)>> \o with_top ELSE with_top
    IN IF mined = <<>> THEN [err |-> "IndexError", intents |-> <<>>]  \* line 47 or 51
       ELSE [err |-> "none", intents |-> with_bottom]

LcmInit ==
    /\ itemsets \in Contexts
    /\ min_supp \in (-1) .. (NObjs + 1)
    /\ pc = "lcm"
    /\ intents = <<>>
    /\ lcm_out = <<>>
    /\ KeysIdle /\ GsofiaIdle /\ BasesIdle /\ SatIdle /\ OrderIdle /\ ExtIdle /\ ClosureIdle /\ IoIdle /\ IndexIdle

ListIntentsViaLCM ==
    /\ pc = "lcm"
    /\ lcm_out' = list_intents_via_LCM(itemsets, min_supp)
    /\ pc' = "lcm_done"
    /\ UNCHANGED <<ctxVars, min_supp, notLcm>>

LcmNext == ListIntentsViaLCM

SpecLCM == LcmInit /\ [][LcmNext]_vars

----------------------------------------------------------------------------
(* Claims about list_intents_via_LCM                                       *)

Support(ctx, B) == Cardinality(Extent(ctx, B))
FrequentClosed(ctx, supp) == {B \in ClosedSets(ctx) : Support(ctx, B) >= supp}
NoDuplicates(s) == \A i, j \in DOMAIN s : s[i] = s[j] => i = j

\* C3: for a context of n >= 1 objects and min_supp in 0 .. n, list_intents_via_LCM
\* returns every closed set of support >= min_supp exactly once and nothing else;
\* the closure of the empty set is always listed, and the set of all attributes is
\* listed exactly when its support is >= min_supp.
C3_LcmComplete ==
    (pc = "lcm_done" /\ Len(itemsets) >= 1 /\ min_supp \in 0 .. Len(itemsets)) =>
        /\ lcm_out.err = "none"
        /\ Range(lcm_out.intents) = FrequentClosed(itemsets, min_supp)
        /\ NoDuplicates(lcm_out.intents)
        /\ Closure(itemsets, {}) \in Range(lcm_out.intents)
        /\ (Attrs \in Range(lcm_out.intents)) <=> (Support(itemsets, Attrs) >= min_supp)

\* C4: the list returned by list_intents_via_LCM is sorted by non-decreasing
\* number of attributes, so that every intent precedes all of its strict supersets.
C4_LcmAscending ==
    (pc = "lcm_done" /\ min_supp \in 0 .. Len(itemsets) /\ lcm_out.err = "none") =>
        /\ IsAscending(lcm_out.intents)
        /\ \A i, j \in DOMAIN lcm_out.intents :
              (lcm_out.intents[i] \subseteq lcm_out.intents[j]
                 /\ lcm_out.intents[i] # lcm_out.intents[j]) => i < j

\* C15: list_intents_via_LCM called with a minimum support below 0 or above
\* the number of objects raises an error and returns no intent list.
C15_InvalidSupportRaises ==
    (pc = "lcm_done" /\ Len(itemsets) >= 1 /\ (min_supp < 0 \/ min_supp > Len(itemsets))) =>
        /\ lcm_out.err # "none"
        /\ lcm_out.intents = <<>>

----------------------------------------------------------------------------
(* list_stable_extents_via_gsofia                                          *)

\* Bounds of the stable-extent model: the number of objects, the number of
\* attribute extents supplied and the largest cap n_stable_extents drawn.
n_objects == 4
NExtents == 3
MaxCap == 2

\* n_stable_extents = None: no cap
None == -1

Objs == 1 .. n_objects
OSets == SUBSET Objs

\* d[k] = v on a dict: a present key keeps its place, a new key goes last
DictPut(d, k, v) ==
    IF DictHas(d, k)
    THEN [i \in DOMAIN d |-> IF d[i][1] = k THEN <<k, v>> ELSE d[i]]
    ELSE Append(d, <<k, v>>)

\* lines 571-580: the projected children that lie in no other projected child
MaximalChildren(cs) == {c \in cs : ~\E b \in cs : c \subseteq b /\ c # b}

\* lines 558-565: the delta of the new extent from the projected children of its parent
DeltaIgnoringChildren(extent_new, children, attr_extent) == Cardinality(extent_new)
DeltaOfSmallestChild(extent_new, children, attr_extent) ==
    LET ds == {Cardinality(extent_new) - Cardinality(child \cap extent_new) : child \in children}
    IN IF ds = {} THEN Cardinality(extent_new)
       ELSE MinOf(Cardinality(extent_new), SetMax(ds))
delta_new(extent_new, children, attr_extent) ==
    LET ds == {Cardinality(extent_new) - Cardinality(child \cap attr_extent) : child \in children}
    IN IF ds = {} THEN Cardinality(extent_new)
       ELSE MinOf(Cardinality(extent_new), SetMin(ds))

\* lines 541-583: the body of the loop over old_stable_extents for one entry,
\* applied to the dict `new` being built
ProjectEntry(new, entry, attr_extent, D, supp) ==
    LET extent == entry[1]
        delta0 == entry[2][1]
        children == entry[2][2]
        extent_new == extent \cap attr_extent
        delta == MinOf(delta0, Cardinality(extent) - Cardinality(extent_new))
        kept == IF delta >= D
                THEN DictPut(new, extent, <<delta, children \cup {extent_new}>>)
                ELSE new
        dn == delta_new(extent_new, children, attr_extent)
        children_new == MaximalChildren({child \cap attr_extent : child \in children})
    IN IF extent_new = extent THEN DictPut(new, extent, <<delta0, children>>)
       ELSE IF Cardinality(extent_new) < supp THEN kept
       ELSE IF dn < D THEN kept
       ELSE DictPut(kept, extent_new, <<dn, children_new>>)

\* lines 540-583: ExtendProjection, the entries of the old dict taken in order
RECURSIVE ProjectAll(_, _, _, _, _)
ProjectAll(new, old, attr_extent, D, supp) ==
    IF old = <<>> THEN new
    ELSE ProjectAll(ProjectEntry(new, Head(old), attr_extent, D, supp),
                    Tail(old), attr_extent, D, supp)

\* heapq.nlargest(n, d.items(), key=delta): the n entries of largest delta,
\* entries of equal delta in their dict order
RECURSIVE SortedByDelta(_)
SortedByDelta(d) ==
    IF d = <<>> THEN <<>>
    ELSE LET i == CHOOSE k \in DOMAIN d :
                     /\ \A j \in DOMAIN d : d[j][2][1] <= d[k][2][1]
                     /\ \A j \in 1 .. (k - 1) : d[j][2][1] < d[k][2][1]
             others == [j \in 1 .. (Len(d) - 1) |-> IF j < i THEN d[j] ELSE d[j + 1]]
         IN <<d[i]>> \o SortedByDelta(others)
nlargest(n, d) == SubSeq(SortedByDelta(d), 1, MinOf(n, Len(d)))

\* the dict left as it is
NoCap(d, N) == d
\* the N entries of largest delta, whatever the ties
TopN(d, N) == IF N # None /\ Len(d) > N THEN nlargest(N, d) ELSE d
\* lines 585-597: the cap on the number of stable extents
ApplyCap(d, N) ==
    IF N # None /\ Len(d) > N
    THEN LET most_stable_extents == nlargest(N, d)
             thold == most_stable_extents[Len(most_stable_extents)][2][1]
             n_border_stable ==
                 Cardinality({i \in DOMAIN most_stable_extents :
                                 ~(most_stable_extents[i][2][1] > thold)})
             n_border_stable_total == Cardinality({i \in DOMAIN d : d[i][2][1] = thold})
         IN IF n_border_stable < n_border_stable_total
            THEN SubSeq(most_stable_extents, 1, Len(most_stable_extents) - n_border_stable)
            ELSE most_stable_extents
    ELSE d

\* the body of the loop without its cap
GsofiaIterUncapped(d, attr_extent, D, supp, N) == ProjectAll(<<>>, d, attr_extent, D, supp)
\* lines 538-597: the body of the loop over the attribute extents
GsofiaIter(d, attr_extent, D, supp, N) ==
    ApplyCap(ProjectAll(<<>>, d, attr_extent, D, supp), N)

\* lines 533-534: the dict before the first attribute
GsofiaStart == <<(<<Objs, <<n_objects, {}>>>>)>>

\* list_stable_extents_via_gsofia run to its return value
RECURSIVE GsofiaLoop(_, _, _, _, _)
GsofiaLoop(d, exts, D, supp, N) ==
    IF exts = <<>> THEN DictKeys(d)
    ELSE GsofiaLoop(GsofiaIter(d, Head(exts), D, supp, N), Tail(exts), D, supp, N)
list_stable_extents_via_gsofia(exts, D, N, supp) == GsofiaLoop(GsofiaStart, exts, D, supp, N)

GsofiaInit ==
    /\ attribute_extents \in [1 .. NExtents -> OSets]
    /\ min_delta_stability \in 0 .. n_objects
    /\ g_min_supp \in 0 .. n_objects
    /\ n_stable_extents \in {None} \cup (1 .. MaxCap)
    /\ n_projected = 0
    /\ stable_extents = GsofiaStart
    /\ pc = "gsofia"
    /\ itemsets = <<>> /\ intents = <<>>
    /\ KeysIdle /\ LcmIdle /\ BasesIdle /\ SatIdle /\ OrderIdle /\ ExtIdle /\ ClosureIdle /\ IoIdle /\ IndexIdle

GsofiaStep ==
    /\ pc = "gsofia"
    /\ n_projected < Len(attribute_extents)
    /\ stable_extents' = GsofiaIter(stable_extents, attribute_extents[n_projected + 1],
                                    min_delta_stability, g_min_supp, n_stable_extents)
    /\ n_projected' = n_projected + 1
    /\ UNCHANGED <<pc, notGsofia, attribute_extents, min_delta_stability, g_min_supp,
                   n_stable_extents>>

GsofiaReturn ==
    /\ pc = "gsofia"
    /\ n_projected = Len(attribute_extents)
    /\ pc' = "gsofia_done"
    /\ UNCHANGED <<notGsofia, gsofiaVars>>

GsofiaNext == GsofiaStep \/ GsofiaReturn

SpecGsofia == GsofiaInit /\ [][GsofiaNext]_vars

----------------------------------------------------------------------------
(* Claims about list_stable_extents_via_gsofia                             *)

\* the extents of the attribute extents: the full object set and every intersection
RECURSIVE MeetOf(_)
MeetOf(Es) == IF Es = {} THEN Objs ELSE LET E == CHOOSE x \in Es : TRUE
                                         IN E \cap MeetOf(Es \ {E})
AllExtents(exts) == {MeetOf(Es) : Es \in SUBSET Range(exts)}

\* |X| - max{ |X \cap E(m)| : E(m) not containing X }, and |X| when there is none
DeltaStability(exts, X) ==
    LET cut == {Cardinality(X \cap exts[m]) : m \in {k \in DOMAIN exts : ~(X \subseteq exts[k])}}
    IN IF cut = {} THEN Cardinality(X) ELSE Cardinality(X) - SetMax(cut)

StableExtents(exts, D, supp) ==
    {X \in AllExtents(exts) : Cardinality(X) >= supp /\ DeltaStability(exts, X) >= D}

\* C5: without a cap, list_stable_extents_via_gsofia returns exactly the extents of
\* support >= min_supp and delta-stability >= min_delta_stability.
C5_GsofiaExact ==
    (pc = "gsofia_done" /\ n_stable_extents = None) =>
        DictKeys(stable_extents) = StableExtents(attribute_extents, min_delta_stability, g_min_supp)

\* a finished run without a cap that returned two extents or more, rejected an
\* extent of sufficient support for its stability, and met a non-empty extent of
\* insufficient support
C5_Witness ==
    /\ pc = "gsofia_done" /\ n_stable_extents = None
    /\ min_delta_stability >= 2 /\ g_min_supp >= 2
    /\ Cardinality(DictKeys(stable_extents)) >= 2
    /\ \E X \in AllExtents(attribute_extents) :
          Cardinality(X) >= g_min_supp
          /\ DeltaStability(attribute_extents, X) < min_delta_stability
    /\ \E X \in AllExtents(attribute_extents) :
          Cardinality(X) >= 1 /\ Cardinality(X) < g_min_supp

\* C13: with n_stable_extents = N given, the map of stable extents holds at
\* most N entries after every attribute step, and the set returned has at most
\* N extents.
C13_CapBound ==
    n_stable_extents # None =>
        /\ Len(stable_extents) <= n_stable_extents
        /\ pc = "gsofia_done" => Cardinality(DictKeys(stable_extents)) <= n_stable_extents

\* a finished run with a cap of MaxCap that holds MaxCap extents, fewer than
\* the run without a cap returns
C13_Witness ==
    /\ pc = "gsofia_done"
    /\ n_stable_extents = MaxCap
    /\ Len(stable_extents) = MaxCap
    /\ Cardinality(list_stable_extents_via_gsofia(attribute_extents, min_delta_stability,
                                                   None, g_min_supp)) > MaxCap

\* the map reached after the attribute extents exts, under the cap N
RECURSIVE MapAfter(_, _, _, _)
MapAfter(exts, D, N, supp) ==
    IF exts = <<>> THEN GsofiaStart
    ELSE GsofiaIter(MapAfter(SubSeq(exts, 1, Len(exts) - 1), D, N, supp),
                    exts[Len(exts)], D, supp, N)

\* the map that the run without a cap holds after k attribute extents
UncappedMap(k) ==
    MapAfter(SubSeq(attribute_extents, 1, k), min_delta_stability, None, g_min_supp)

\* C22 as stated: the cap is applied once, after the last attribute extent:
\* the set returned is the cap rule applied to the map of the run without a
\* cap, and before the last step the map is that of the run without a cap.
C22_CapOnlyAtEnd ==
    n_stable_extents # None =>
        /\ pc = "gsofia_done" =>
              DictKeys(stable_extents)
                  = DictKeys(ApplyCap(UncappedMap(Len(attribute_extents)), n_stable_extents))
        /\ (pc = "gsofia" /\ n_projected < Len(attribute_extents)) =>
              stable_extents = UncappedMap(n_projected)

\* C22 amended: the cap is applied at the end of every attribute step.  The
\* extents returned are stable extents of the run without a cap; they are the
\* cap rule applied to its final map when none of its earlier maps held more
\* than N entries.
C22_CapAtEveryStep ==
    (pc = "gsofia_done" /\ n_stable_extents # None) =>
        /\ DictKeys(stable_extents) \subseteq DictKeys(UncappedMap(Len(attribute_extents)))
        /\ (\A k \in 0 .. (Len(attribute_extents) - 1) : Len(UncappedMap(k)) <= n_stable_extents)
              => DictKeys(stable_extents)
                    = DictKeys(ApplyCap(UncappedMap(Len(attribute_extents)), n_stable_extents))

\* a finished run whose cap dropped an entry before the last attribute extent
\* and which returns another set than the cap of the final map without a cap
C22_Witness ==
    /\ pc = "gsofia_done" /\ n_stable_extents # None
    /\ \E k \in 1 .. (Len(attribute_extents) - 1) : Len(UncappedMap(k)) > n_stable_extents
    /\ DictKeys(stable_extents)
          # DictKeys(ApplyCap(UncappedMap(Len(attribute_extents)), n_stable_extents))

\* the map projected by the step about to be taken, before its cap
Projected ==
    ProjectAll(<<>>, stable_extents, attribute_extents[n_projected + 1],
               min_delta_stability, g_min_supp)

\* kept holds entries of d only; every entry kept has a larger delta than
\* every entry dropped, so entries of equal delta are kept or dropped together
CutAtDelta(d, kept) ==
    /\ Range(kept) \subseteq Range(d)
    /\ \A r \in Range(kept) : \A x \in Range(d) \ Range(kept) : r[2][1] > x[2][1]

\* C23: whenever the cap truncates the map, every retained entry has delta >=
\* the delta of every dropped entry and entries of equal delta are retained
\* or dropped together: the entries at the threshold delta are all deleted
\* when they cannot all be kept within N.
C23_CapCutsAtDelta ==
    [][(pc = "gsofia" /\ n_projected < Len(attribute_extents)
          /\ n_stable_extents # None /\ Len(Projected) > n_stable_extents)
         => CutAtDelta(Projected, stable_extents')]_vars

\* the map after a step whose cap deleted all the entries at the threshold
\* delta, more than one, and kept an entry of larger delta
C23_Witness ==
    /\ pc = "gsofia" /\ n_projected >= 1 /\ n_stable_extents # None
    /\ LET before == ProjectAll(<<>>,
                                MapAfter(SubSeq(attribute_extents, 1, n_projected - 1),
                                         min_delta_stability, n_stable_extents, g_min_supp),
                                attribute_extents[n_projected], min_delta_stability, g_min_supp)
       IN /\ Len(before) > n_stable_extents
          /\ stable_extents # <<>>
          /\ Len(stable_extents) < n_stable_extents
          /\ \E i, j \in DOMAIN before :
                /\ i # j /\ before[i][2][1] = before[j][2][1]
                /\ before[i] \notin Range(stable_extents)
                /\ before[j] \notin Range(stable_extents)

\* C29: after every attribute step of list_stable_extents_via_gsofia, thresholds
\* within 0 .. n_objects, every stored entry X -> (delta, children) has X the
\* full object set or an intersection of attribute extents already projected,
\* |X| >= min_supp, min_delta_stability <= delta <= |X|, and every stored child
\* inside X with delta <= |X| - |child|.
C29_EntriesWellFormed ==
    \A i \in DOMAIN stable_extents :
        LET X == stable_extents[i][1]
            delta == stable_extents[i][2][1]
            children == stable_extents[i][2][2]
        IN /\ X \in AllExtents(SubSeq(attribute_extents, 1, n_projected))
           /\ Cardinality(X) >= g_min_supp
           /\ min_delta_stability <= delta
           /\ delta <= Cardinality(X)
           /\ \A c \in children : c \subseteq X /\ delta <= Cardinality(X) - Cardinality(c)

\* positive thresholds, and a stored extent below the full object set that was
\* created with a child of its own and a delta smaller than its size
C29_Witness ==
    /\ min_delta_stability >= 1
    /\ g_min_supp >= 1
    /\ n_projected >= 2
    /\ \E i \in DOMAIN stable_extents :
          /\ stable_extents[i][1] # Objs
          /\ stable_extents[i][2][2] # {}
          /\ stable_extents[i][2][1] < Cardinality(stable_extents[i][1])

\* the sequence exts reordered by the permutation p of its positions
Permuted(exts, p) == [i \in DOMAIN exts |-> exts[p[i]]]
PositionPerms(n) == {p \in [1 .. n -> 1 .. n] : \A a, b \in 1 .. n : p[a] = p[b] => a = b}

OrderIndependent ==
    \A p \in PositionPerms(Len(attribute_extents)) :
        list_stable_extents_via_gsofia(Permuted(attribute_extents, p), min_delta_stability,
                                       n_stable_extents, g_min_supp)
            = DictKeys(stable_extents)

\* C6 as stated: whatever the thresholds and the cap, the set returned is the
\* same for every order of the attribute extents.
C6_OrderIndependentAnyCap == (pc = "gsofia_done") => OrderIndependent

\* C6 amended: with n_stable_extents unset, the set returned is the same for every
\* order of the attribute extents.
C6_OrderIndependentNoCap ==
    (pc = "gsofia_done" /\ n_stable_extents = None) => OrderIndependent

\* a finished run without a cap whose attribute extents are pairwise different
\* and neither nested nor disjoint, so that the orders project different chains
C6_Witness ==
    /\ pc = "gsofia_done" /\ n_stable_extents = None
    /\ min_delta_stability >= 1
    /\ Cardinality(DictKeys(stable_extents)) >= 3
    /\ \A i, j \in DOMAIN attribute_extents :
          i # j => /\ ~(attribute_extents[i] \subseteq attribute_extents[j])
                   /\ attribute_extents[i] \cap attribute_extents[j] # {}

----------------------------------------------------------------------------
(* iter_proper_premises_via_keys  (implication_bases.py)                   *)

\* lines 22-28: the loop `for n in key` over the attributes still to visit
\* (todo), the running union cum; TRUE when the loop ends without a break.
\* A key whose subset is missing from the dict is a KeyError.
RECURSIVE CumulativeKey(_, _, _, _, _)
CumulativeKey(ints, kd, key, todo, cum) ==
    IF todo = <<>> THEN [yield |-> TRUE, err |-> "none"]
    ELSE LET n == Head(todo)
         IN IF ~DictHas(kd, key \ {n}) THEN [yield |-> FALSE, err |-> "KeyError"]
            ELSE LET c == cum \cup ints[DictGet(kd, key \ {n})]
                 IN IF c = ints[DictGet(kd, key)] THEN [yield |-> FALSE, err |-> "none"]
                    ELSE CumulativeKey(ints, kd, key, Tail(todo), c)

\* a test that never looks below the key: every non-closed key passes
NonClosedKey(ints, kd, key) ==
    [yield |-> key # ints[DictGet(kd, key)], err |-> "none"]
\* lines 18-28: the body of the loop for one key
ProperPremiseTest(ints, kd, key) ==
    IF key = ints[DictGet(kd, key)] THEN [yield |-> FALSE, err |-> "none"]
    ELSE CumulativeKey(ints, kd, key, IndexList(key), key)

\* lines 17-28: the keys of the dict in insertion order, from position i on
RECURSIVE ProperPremisesFrom(_, _, _, _)
ProperPremisesFrom(ints, kd, i, out) ==
    IF i > Len(kd) THEN [err |-> "none", premises |-> out]
    ELSE LET t == ProperPremiseTest(ints, kd, kd[i][1])
         IN IF t.err # "none" THEN [err |-> t.err, premises |-> out]
            ELSE ProperPremisesFrom(ints, kd, i + 1,
                                    IF t.yield THEN Append(out, kd[i][1]) ELSE out)
iter_proper_premises_via_keys(ints, kd) == ProperPremisesFrom(ints, kd, 1, <<>>)

----------------------------------------------------------------------------
(* list_pseudo_intents_via_keys  (implication_bases.py)                    *)
(* A rule or stored triple is <<key, premise, intent index>>.              *)

\* lines 244-248: one pass over the unused rules, in order; a rule fires when
\* its premise is a strict subset of the set built so far, the others are kept
RECURSIVE SatScan(_, _, _, _)
SatScan(closure, todo, kept, ints) ==
    IF todo = <<>> THEN [closure |-> closure, unused |-> kept]
    ELSE LET r == Head(todo)
         IN IF ~(r[2] \subseteq closure /\ r[2] # closure)
            THEN SatScan(closure, Tail(todo), Append(kept, r), ints)
            ELSE SatScan(closure \cup ints[r[3]], Tail(todo), kept, ints)

\* lines 240-242: passes are repeated until one adds nothing
RECURSIVE SatLoop(_, _, _)
SatLoop(closure, unused, ints) ==
    LET r == SatScan(closure, unused, <<>>, ints)
    IN IF r.closure = closure THEN closure ELSE SatLoop(r.closure, r.unused, ints)

\* a single pass over the rules
SaturateOnePass(P, rules, ints) == SatScan(P, rules, <<>>, ints).closure
\* lines 235-250
saturate(P, rules, ints) == SatLoop(P, rules, ints)

\* sorted(..., key=lambda pi_data: len(pi_data[1])): stable insertion
RECURSIVE InsertBySize(_, _)
InsertBySize(s, t) ==
    IF s = <<>> THEN <<t>>
    ELSE IF Cardinality(Head(s)[2]) <= Cardinality(t[2]) THEN <<Head(s)>> \o InsertBySize(Tail(s), t)
    ELSE <<t>> \o s
RECURSIVE SortedBySize(_)
SortedBySize(s) ==
    IF s = <<>> THEN <<>> ELSE InsertBySize(SortedBySize(SubSeq(s, 1, Len(s) - 1)), s[Len(s)])

\* lines 261-265: the scan from the end of the list; p is the position looked
\* at (Python's new_idx + 1).  0: an equal saturated premise is stored already.
\* The predecessor of the first position is the last one (Python's index -1).
RECURSIVE FindNewIdx(_, _, _)
FindNewIdx(pl, new_pintent, p) ==
    LET pred == IF p = 1 THEN Len(pl) ELSE p - 1
    IN IF pl[p][2] = new_pintent THEN 0
       ELSE IF Cardinality(pl[pred][2]) < Cardinality(new_pintent) THEN p
       ELSE IF p = 1 THEN 1
       ELSE FindNewIdx(pl, new_pintent, p - 1)

\* lines 272-277: the tail from Python index idx on, saturated again under the
\* triples before it, without those that became closed, sorted by size
Resaturated(pl, idx, ints) ==
    LET head == SubSeq(pl, 1, idx)
        tail == SubSeq(pl, idx + 1, Len(pl))
        again == [k \in DOMAIN tail |-> <<tail[k][1], saturate(tail[k][1], head, ints), tail[k][3]>>]
        live == SelectSeq(again, LAMBDA t : t[2] # ints[t[3]])
    IN head \o SortedBySize(live)

\* lines 268-277: for idx in range(new_idx, len(pintents_list)), the range
\* being fixed (stop) when the loop starts
RECURSIVE Cascade(_, _, _, _)
Cascade(pl, idx, stop, ints) ==
    IF idx >= stop \/ Len(pl) <= idx THEN pl
    ELSE Cascade(Resaturated(pl, idx, ints), idx + 1, stop, ints)

\* the insertion alone, the stored triples left as they are
InsertOnly(pl, p, t, ints) ==
    SubSeq(pl, 1, p - 1) \o <<t>> \o SubSeq(pl, p, Len(pl))
\* lines 266-279: the insertion at position p, then the cascade
InsertAndCascade(pl, p, t, ints) ==
    LET ins == SubSeq(pl, 1, p - 1) \o <<t>> \o SubSeq(pl, p, Len(pl))
    IN Cascade(ins, p - 1, Len(ins), ints)

\* lines 252-279
add_pintent(new_key, new_pintent, new_intent_i, pl, ints) ==
    IF pl = <<>> \/ Cardinality(pl[Len(pl)][2]) < Cardinality(new_pintent)
    THEN Append(pl, <<new_key, new_pintent, new_intent_i>>)
    ELSE LET p == FindNewIdx(pl, new_pintent, Len(pl))
         IN IF p = 0 THEN pl
            ELSE InsertAndCascade(pl, p, <<new_key, new_pintent, new_intent_i>>, ints)

\* lines 282-287: the body of the main loop for one pair (key, intent_i)
PseudoIter(pl, key, intent_i, ints) ==
    LET key_saturated == saturate(key, pl, ints)
    IN IF key_saturated = ints[intent_i] THEN pl
       ELSE add_pintent(key, key_saturated, intent_i, pl, ints)

RECURSIVE PseudoLoop(_, _, _)
PseudoLoop(pl, kim, ints) ==
    IF kim = <<>> THEN pl
    ELSE PseudoLoop(PseudoIter(pl, Head(kim)[1], Head(kim)[2], ints), Tail(kim), ints)
list_pseudo_intents_via_keys(kim, ints) == PseudoLoop(<<>>, kim, ints)

\* The orders in which a list of premises can be supplied with non-decreasing
\* intent index: each premise is paired with the index of its closure.
Orderings(prems, kd) ==
    LET n == Len(prems)
        perms == {f \in [1 .. n -> 1 .. n] : \A i, j \in 1 .. n : f[i] = f[j] => i = j}
    IN {[i \in 1 .. n |-> <<prems[f[i]], DictGet(kd, prems[f[i]])>>] : f \in
          {g \in perms : \A i \in 1 .. (n - 1) :
              DictGet(kd, prems[g[i]]) <= DictGet(kd, prems[g[i + 1]])}}

BasesInit ==
    /\ itemsets \in Contexts
    /\ intents \in SortedIntentLists(itemsets)
    /\ only_passkeys = FALSE
    /\ keys_dict = list_keys(intents, FALSE)
    /\ attrs_to_test = <<>>
    /\ passkey_sizes = <<>>
    /\ pc = "proper_premises"
    /\ BasesIdle /\ LcmIdle /\ GsofiaIdle /\ SatIdle /\ OrderIdle /\ ExtIdle /\ ClosureIdle /\ IoIdle /\ IndexIdle

\* the caller drains iter_proper_premises_via_keys
IterProperPremises ==
    /\ pc = "proper_premises"
    /\ premises' = iter_proper_premises_via_keys(intents, keys_dict).premises
    /\ pc' = IF iter_proper_premises_via_keys(intents, keys_dict).err = "none"
             THEN "pp_done" ELSE "KeyError"
    /\ UNCHANGED <<ctxVars, keysVars, keys_intent_map, n_consumed, pseudo_intents, notBases>>

\* list_pseudo_intents_via_keys is called with the premises in one of the orders
PseudoStart ==
    /\ pc = "pp_done"
    /\ keys_intent_map' \in Orderings(premises, keys_dict)
    /\ n_consumed' = 0
    /\ pseudo_intents' = <<>>
    /\ pc' = "pseudo"
    /\ UNCHANGED <<ctxVars, keysVars, premises, notBases>>

PseudoStep ==
    /\ pc = "pseudo"
    /\ n_consumed < Len(keys_intent_map)
    /\ pseudo_intents' = PseudoIter(pseudo_intents, keys_intent_map[n_consumed + 1][1],
                                    keys_intent_map[n_consumed + 1][2], intents)
    /\ n_consumed' = n_consumed + 1
    /\ UNCHANGED <<pc, ctxVars, keysVars, premises, keys_intent_map, notBases>>

PseudoReturn ==
    /\ pc = "pseudo"
    /\ n_consumed = Len(keys_intent_map)
    /\ pc' = "pseudo_done"
    /\ UNCHANGED <<ctxVars, keysVars, basesVars, notBases>>

BasesNext == IterProperPremises \/ PseudoStart \/ PseudoStep \/ PseudoReturn

SpecBases == BasesInit /\ [][BasesNext]_vars

----------------------------------------------------------------------------
(* Proper premises and pseudo-intents, as the mathematics defines them.    *)

\* A u U_{m in A} closure(A \ {m})
BelowClosure(ctx, A) == A \cup UNION {Closure(ctx, A \ {m}) : m \in A}
ProperPremises(ctx) ==
    {A \in MSets : BelowClosure(ctx, A) \subseteq Closure(ctx, A)
                   /\ BelowClosure(ctx, A) # Closure(ctx, A)}

\* The pseudo-intents of at most k attributes: P is not closed, and
\* closure(Q) is inside P for every pseudo-intent Q strictly inside P.
RECURSIVE PseudoIntentsUpTo(_, _)
PseudoIntentsUpTo(ctx, k) ==
    IF k < 0 THEN {}
    ELSE LET smaller == PseudoIntentsUpTo(ctx, k - 1)
         IN smaller \cup
            {P \in MSets : /\ Cardinality(P) = k
                           /\ Closure(ctx, P) # P
                           /\ \A Q \in smaller : (Q \subseteq P /\ Q # P) => Closure(ctx, Q) \subseteq P}
PseudoIntents(ctx) == PseudoIntentsUpTo(ctx, NAttrs)

\* C8: on the complete sorted intents and the full key map of a context,
\* iter_proper_premises_via_keys emits exactly the sets A for which
\* A u U_m closure(A \ {m}) is a strict subset of closure(A), each once.
C8_ProperPremisesExact ==
    pc \in {"pp_done", "KeyError"} =>
        /\ pc = "pp_done"
        /\ Range(premises) = ProperPremises(itemsets)
        /\ NoDuplicates(premises)

\* a context where some non-closed keys are proper premises and others are not
C8_Witness ==
    /\ pc = "pp_done"
    /\ Len(premises) >= 2
    /\ \E i \in DOMAIN keys_dict :
          /\ keys_dict[i][1] # intents[keys_dict[i][2]]
          /\ Cardinality(keys_dict[i][1]) >= 2
          /\ keys_dict[i][1] \notin Range(premises)
    /\ \E i \in DOMAIN premises : Cardinality(premises[i]) >= 2

\* C7: with the proper premises supplied in non-decreasing intent index, the
\* saturated premises returned are exactly the pseudo-intents, each once, in
\* non-decreasing cardinality, each paired with the index of its closure.
C7_PseudoIntentsExact ==
    pc = "pseudo_done" =>
        /\ {pseudo_intents[i][2] : i \in DOMAIN pseudo_intents} = PseudoIntents(itemsets)
        /\ \A i, j \in DOMAIN pseudo_intents :
              i < j => /\ pseudo_intents[i][2] # pseudo_intents[j][2]
                       /\ Cardinality(pseudo_intents[i][2]) <= Cardinality(pseudo_intents[j][2])
        /\ \A i \in DOMAIN pseudo_intents :
              /\ pseudo_intents[i][3] \in DOMAIN intents
              /\ intents[pseudo_intents[i][3]] = Closure(itemsets, pseudo_intents[i][2])

\* a run where a candidate was dropped or merged, a saturation enlarged a
\* key, and a pseudo-intent was stored before a larger one supplied earlier
C7_Witness ==
    /\ pc = "pseudo_done"
    /\ Len(pseudo_intents) >= 3
    /\ Len(pseudo_intents) < Len(keys_intent_map)
    /\ \E i \in DOMAIN pseudo_intents : pseudo_intents[i][1] # pseudo_intents[i][2]
    /\ \E i, j \in DOMAIN keys_intent_map :
          /\ i < j
          /\ Cardinality(keys_intent_map[i][1]) > Cardinality(keys_intent_map[j][1])
          /\ \E a, b \in DOMAIN pseudo_intents :
                /\ a < b
                /\ pseudo_intents[a][1] = keys_intent_map[j][1]
                /\ pseudo_intents[b][1] = keys_intent_map[i][1]

\* the list pl without its i-th triple
WithoutTriple(pl, i) == SubSeq(pl, 1, i - 1) \o SubSeq(pl, i + 1, Len(pl))

\* C24: after every insertion made by list_pseudo_intents_via_keys, the
\* saturated premise of each stored triple is the saturation of its key under
\* all the other stored triples, and a strict subset of intents[intent index].
C24_TriplesSelfConsistent ==
    pc \in {"pseudo", "pseudo_done"} =>
        \A i \in DOMAIN pseudo_intents :
            /\ pseudo_intents[i][2]
                  = saturate(pseudo_intents[i][1], WithoutTriple(pseudo_intents, i), intents)
            /\ pseudo_intents[i][2] \subseteq intents[pseudo_intents[i][3]]
            /\ pseudo_intents[i][2] # intents[pseudo_intents[i][3]]

\* the map after a step that inserted a triple before stored ones and whose
\* cascade saturated a stored triple further or removed it
C24_Witness ==
    /\ pc = "pseudo" /\ n_consumed >= 1
    /\ LET before == PseudoLoop(<<>>, SubSeq(keys_intent_map, 1, n_consumed - 1), intents)
           key == keys_intent_map[n_consumed][1]
           key_saturated == saturate(key, before, intents)
       IN /\ before # <<>>
          /\ key_saturated # intents[keys_intent_map[n_consumed][2]]
          /\ Cardinality(before[Len(before)][2]) >= Cardinality(key_saturated)
          /\ FindNewIdx(before, key_saturated, Len(before)) # 0
          /\ pseudo_intents
                # InsertOnly(before, FindNewIdx(before, key_saturated, Len(before)),
                             <<key, key_saturated, keys_intent_map[n_consumed][2]>>, intents)

----------------------------------------------------------------------------
(* list_pseudo_intents_via_keys on the proper premises in any order.       *)

\* the premises, each with the index of its closure, in the order emitted
EmittedPairs(prems, kd) == [i \in DOMAIN prems |-> <<prems[i], DictGet(kd, prems[i])>>]

\* every order of the (premise, intent index) pairs
AllOrderings(prems, kd) ==
    {Permuted(EmittedPairs(prems, kd), p) : p \in PositionPerms(Len(prems))}

PseudoStartAnyOrder ==
    /\ pc = "pp_done"
    /\ keys_intent_map' \in AllOrderings(premises, keys_dict)
    /\ n_consumed' = 0
    /\ pseudo_intents' = <<>>
    /\ pc' = "pseudo"
    /\ UNCHANGED <<ctxVars, keysVars, premises, notBases>>

AnyOrderNext == IterProperPremises \/ PseudoStartAnyOrder \/ PseudoStep \/ PseudoReturn

SpecBasesAnyOrder == BasesInit /\ [][AnyOrderNext]_vars

\* the (saturated premise, intent index) pairs of a list of triples
PremiseIndexPairs(pl) == {<<pl[i][2], pl[i][3]>> : i \in DOMAIN pl}

\* C28: the set of (saturated premise, intent index) pairs returned by
\* list_pseudo_intents_via_keys is the same for every order in which the
\* candidate (premise, intent index) pairs are supplied: it is the set
\* returned on the order in which the premises were emitted.
C28_CandidateOrderIndependent ==
    pc = "pseudo_done" =>
        PremiseIndexPairs(pseudo_intents)
            = PremiseIndexPairs(list_pseudo_intents_via_keys(EmittedPairs(premises, keys_dict),
                                                              intents))

\* a finished run on an order that is neither the emitted one nor one of
\* non-decreasing intent index, where a candidate was dropped or merged and
\* the triples stored are not those of the emitted order
C28_Witness ==
    /\ pc = "pseudo_done"
    /\ keys_intent_map # EmittedPairs(premises, keys_dict)
    /\ \E i \in 1 .. (Len(keys_intent_map) - 1) :
          keys_intent_map[i][2] > keys_intent_map[i + 1][2]
    /\ Len(pseudo_intents) >= 2
    /\ Len(pseudo_intents) < Len(keys_intent_map)
    /\ pseudo_intents
          # list_pseudo_intents_via_keys(EmittedPairs(premises, keys_dict), intents)

----------------------------------------------------------------------------
(* One call of saturate on arbitrary arguments: a set, up to MaxRules      *)
(* rules and a list of NSatIntents sets over NSatAttrs attributes.         *)

NSatAttrs == 3
MaxRules == 2
NSatIntents == 2

SatSets == SUBSET (0 .. (NSatAttrs - 1))
SatRules == {<<prem, prem, i>> : prem \in SatSets, i \in 1 .. NSatIntents}

SatInit ==
    /\ new_prem \in SatSets
    /\ impls \in UNION {[1 .. n -> SatRules] : n \in 0 .. MaxRules}
    /\ intents_ \in [1 .. NSatIntents -> SatSets]
    /\ saturated = {}
    /\ saturated_again = {}
    /\ pc = "saturate"
    /\ itemsets = <<>> /\ intents = <<>>
    /\ KeysIdle /\ LcmIdle /\ GsofiaIdle /\ BasesIdle /\ OrderIdle /\ ExtIdle /\ ClosureIdle /\ IoIdle /\ IndexIdle

Saturate ==
    /\ pc = "saturate"
    /\ saturated' = saturate(new_prem, impls, intents_)
    /\ pc' = "saturate_done"
    /\ UNCHANGED <<new_prem, impls, intents_, saturated_again, notSat>>

\* saturate applied to its own result, under the same rules and intents
SaturateAgain ==
    /\ pc = "saturate_done"
    /\ saturated_again' = saturate(saturated, impls, intents_)
    /\ pc' = "saturate_again_done"
    /\ UNCHANGED <<new_prem, impls, intents_, saturated, notSat>>

SatNext == Saturate \/ SaturateAgain

SpecSaturate == SatInit /\ [][SatNext]_vars

\* S respects every rule whose premise is inside S, S itself included
RespectsRules(S) ==
    \A k \in DOMAIN impls : impls[k][2] \subseteq S => intents_[impls[k][3]] \subseteq S
\* S respects every rule whose premise is strictly inside S
RespectsRulesStrictlyBelow(S) ==
    \A k \in DOMAIN impls :
        (impls[k][2] \subseteq S /\ impls[k][2] # S) => intents_[impls[k][3]] \subseteq S

\* C10 as stated: saturate returns the smallest S containing P such that every
\* rule whose premise is a subset of S, a premise equal to S included, has
\* its conclusion intent inside S.
C10_SaturateSmallest ==
    pc = "saturate_done" =>
        /\ new_prem \subseteq saturated
        /\ RespectsRules(saturated)
        /\ \A S \in SatSets : (new_prem \subseteq S /\ RespectsRules(S)) => saturated \subseteq S

\* C10 amended: saturate returns the smallest S containing P such that every
\* rule whose premise is a strict subset of S has its conclusion intent
\* inside S; a rule whose premise equals S is not applied.
C10_SaturateSmallestStrict ==
    pc = "saturate_done" =>
        /\ new_prem \subseteq saturated
        /\ RespectsRulesStrictlyBelow(saturated)
        /\ \A S \in SatSets :
              (new_prem \subseteq S /\ RespectsRulesStrictlyBelow(S)) => saturated \subseteq S

\* a call where a rule enlarged the set and another rule, whose premise is
\* the set returned, would have enlarged it further
C10_Witness ==
    /\ pc = "saturate_done"
    /\ saturated # new_prem
    /\ \E k \in DOMAIN impls :
          /\ impls[k][2] = saturated
          /\ ~(intents_[impls[k][3]] \subseteq saturated)

\* C18: saturating the result of saturate(P, rules, intents) again under the
\* same rules and intents returns it unchanged.
C18_SaturateIdempotent == pc = "saturate_again_done" => saturated_again = saturated

\* a second call on a result that took more than one pass over the rules
C18_Witness ==
    /\ pc = "saturate_again_done"
    /\ saturated # new_prem
    /\ SaturateOnePass(new_prem, impls, intents_) # saturated

----------------------------------------------------------------------------
(* sort_intents_inclusion  (order.py)                                      *)
(* Positions are Python's indices plus one; 0 stands for Python's -1.      *)

\* bitarray.find(True): the first set position, -1 when there is none
FindTrue(S) == IF S = {} THEN 0 ELSE SetMin(S)

\* every child kept, the ones reached through another child included
AllChildren(children, trans_children) == children
\* line 139: children - trans_children
DirectChildren(children, trans_children) == children \ trans_children

\* lines 126-139: the body of the loop for the intent at position i;
\* trans_lattice[-1] is the entry of the last intent
SortInclusionIter(ints, st, i) ==
    LET all_attrs == ints[Len(ints)]
        cd == common_descendants(ints, ints[i])
        children == {FindTrue(cd \cap attrs_descendants(ints, m)) : m \in all_attrs \ ints[i]}
        trans_children ==
            UNION {st.trans_lattice[IF c = 0 THEN Len(ints) ELSE c] : c \in children}
    IN [lattice |-> [st.lattice EXCEPT ![i] = DirectChildren(children, trans_children)],
        trans_lattice |-> [st.trans_lattice EXCEPT ![i] = children \cup trans_children]]

\* line 126: the intents are visited from the last one to the first
RECURSIVE SortInclusionLoop(_, _, _)
SortInclusionLoop(ints, st, i) ==
    IF i = 0 THEN st.lattice
    ELSE SortInclusionLoop(ints, SortInclusionIter(ints, st, i), i - 1)

\* lines 111-141.  The list must be ascending (line 112), non-empty (line 117),
\* and every attribute used must be below the size of the last intent, the
\* length of attrs_descendants (line 124).
sort_intents_inclusion(ints) ==
    IF ~IsAscending(ints) THEN [err |-> "AssertionError", lattice |-> <<>>]
    ELSE IF ints = <<>> THEN [err |-> "IndexError", lattice |-> <<>>]
    ELSE IF \E i \in DOMAIN ints : \E m \in ints[i] : m >= Cardinality(ints[Len(ints)])
    THEN [err |-> "IndexError", lattice |-> <<>>]
    ELSE [err |-> "none",
          lattice |-> SortInclusionLoop(ints, [lattice |-> [i \in DOMAIN ints |-> {}],
                                               trans_lattice |-> [i \in DOMAIN ints |-> {}]],
                                        Len(ints))]

OrderInit ==
    /\ itemsets \in Contexts
    /\ intents \in SortedIntentLists(itemsets)
    /\ lattice = <<>>
    /\ pc = "order"
    /\ KeysIdle /\ LcmIdle /\ GsofiaIdle /\ BasesIdle /\ SatIdle /\ ExtIdle /\ ClosureIdle /\ IoIdle /\ IndexIdle

SortIntentsInclusion ==
    /\ pc = "order"
    /\ lattice' = sort_intents_inclusion(intents).lattice
    /\ pc' = IF sort_intents_inclusion(intents).err = "none" THEN "order_done"
             ELSE sort_intents_inclusion(intents).err
    /\ UNCHANGED <<ctxVars, notOrder>>

OrderNext == SortIntentsInclusion

SpecOrder == OrderInit /\ [][OrderNext]_vars

StrictlyInside(A, B) == A \subseteq B /\ A # B
\* the positions of the smallest intents strictly above the intent at i
UpperCovers(ints, i) ==
    {j \in DOMAIN ints :
        /\ StrictlyInside(ints[i], ints[j])
        /\ ~\E k \in DOMAIN ints : StrictlyInside(ints[i], ints[k]) /\ StrictlyInside(ints[k], ints[j])}

\* the positions reached from the set S in one to n + 1 steps of the relation rel
RECURSIVE ReachedIn(_, _, _)
ReachedIn(rel, S, n) ==
    LET next == UNION {rel[x] : x \in S \cap DOMAIN rel}
    IN IF n = 0 THEN next ELSE next \cup ReachedIn(rel, next, n - 1)
Reached(rel, i) == ReachedIn(rel, {i}, Len(rel))

\* C9: on a complete ascending intent list, sort_intents_inclusion returns for
\* each intent exactly the positions of its upper covers; the relation returned
\* has no cycle and its transitive closure is strict inclusion of the intents.
C9_UpperCoversExact ==
    pc \notin {"order"} =>
        /\ pc = "order_done"
        /\ DOMAIN lattice = DOMAIN intents
        /\ \A i \in DOMAIN intents : lattice[i] = UpperCovers(intents, i)
        /\ \A i \in DOMAIN intents : i \notin Reached(lattice, i)
        /\ \A i, j \in DOMAIN intents :
              j \in Reached(lattice, i) <=> StrictlyInside(intents[i], intents[j])

\* a lattice where an intent has two upper covers, and where the closure of
\* an intent with one more attribute is not an upper cover of it
C9_Witness ==
    /\ pc = "order_done"
    /\ Len(intents) >= 5
    /\ \E i \in DOMAIN lattice : Cardinality(lattice[i]) >= 2
    /\ \E i \in DOMAIN intents : \E m \in Attrs \ intents[i] :
          PosOf(intents, Closure(itemsets, intents[i] \cup {m})) \notin lattice[i]


\* sort_intents_inclusion on the intents of a positive minimum support: the
\* closed sets of at least k objects of a context where fewer than k objects
\* have every attribute, in ascending order
OrderNoTopInit ==
    /\ itemsets \in Contexts
    /\ \E k \in 1 .. Len(itemsets) :
          /\ Attrs \notin FrequentClosed(itemsets, k)
          /\ intents \in {AscendingSeq(FrequentClosed(itemsets, k), p) : p \in AttrPerms}
    /\ lattice = <<>>
    /\ pc = "order"
    /\ KeysIdle /\ LcmIdle /\ GsofiaIdle /\ BasesIdle /\ SatIdle /\ ExtIdle /\ ClosureIdle /\ IoIdle
    /\ IndexIdle

SpecOrderNoTop == OrderNoTopInit /\ [][OrderNext]_vars

\* C30: on an ascending, intersection-closed intent list without the intent of
\* all attributes, sort_intents_inclusion returns, and every position it
\* returns for the intent at i is a position j > i of the list whose intent
\* strictly contains the intent at i; an attribute that no listed intent adds
\* to the intent at i gives no position.
C30_CoversValidWithoutTop ==
    pc # "order" =>
        /\ pc = "order_done"
        /\ DOMAIN lattice = DOMAIN intents
        /\ \A i \in DOMAIN intents : \A j \in lattice[i] :
              /\ j \in DOMAIN intents
              /\ j > i
              /\ StrictlyInside(intents[i], intents[j])

----------------------------------------------------------------------------
(* list_keys_for_extents / list_passkeys_for_extents                       *)
(* (mine_equivalence_classes.py).  An extent is a set of objects 1 .. n.   *)
(* A dict value is <<support, extent position or None>>.                   *)

\* check_topologically_sorted(extents, ascending=False): the sizes never grow
check_topologically_sorted(elements) ==
    \A i \in 1 .. (Len(elements) - 1) : Cardinality(elements[i]) >= Cardinality(elements[i + 1])

\* lines 366-369: the extents as the loop uses them, biggest first, and the
\* position each one had in the list supplied
SortedExtents(exts) ==
    IF ~check_topologically_sorted(exts) THEN topological_sorting(exts)
    ELSE <<exts, [i \in DOMAIN exts |-> i]>>
\* line 370: the dict keeps, for a sorted position, the last original one
topsort_to_orig_idx_map(exts, sort_idx) ==
    SetMax({orig_idx \in DOMAIN exts : SortedExtents(exts)[2][orig_idx] = sort_idx})

\* lines 372, 383, 395: extents_idx_map.get(extent), None when absent
extents_idx_map(sorted, extent) ==
    IF \E i \in DOMAIN sorted : sorted[i] = extent
    THEN SetMax({i \in DOMAIN sorted : sorted[i] = extent})
    ELSE None

\* line 376: attr_extents[0] | ~attr_extents[0]
total_extent(n_objs) == 1 .. n_objs

\* line 394: the objects that have every attribute of attrs
CurrExtent(aexts, n_objs, attrs) ==
    {g \in total_extent(n_objs) : \A m \in attrs : g \in aexts[m + 1]}

\* line 391: some attrs \ {m} is not in keys_dict
SubDescriptionNotKey(kd, attrs) == \E m \in attrs : ~DictHas(kd, attrs \ single_attrs(m))

\* the comparison made strict
SubDescriptionSmallerSupport(kd, attrs, support) ==
    \E m \in attrs : DictGet(kd, attrs \ single_attrs(m))[1] < support
\* line 404: some attrs \ {m} has no more objects than attrs
SubDescriptionSameSupport(kd, attrs, support) ==
    \E m \in attrs : DictGet(kd, attrs \ single_attrs(m))[1] <= support

\* lines 411-413
has_smaller_extents(sorted, curr_extent, curr_extent_i) ==
    /\ Cardinality(curr_extent) > Cardinality(sorted[Len(sorted)])
    /\ curr_extent_i # None =>
          \E j \in (curr_extent_i + 1) .. Len(sorted) : sorted[j] \subseteq curr_extent

\* lines 372-384: the state the loop starts in
KeysForExtentsStart(exts, aexts, n_objs, flag) ==
    [kd |-> <<(<<{}, <<n_objs, extents_idx_map(SortedExtents(exts)[1], total_extent(n_objs))>> >>)>>,
     stack |-> [k \in 1 .. NAttrs |-> single_attrs(k - 1)],
     sizes |-> [i \in DOMAIN exts |-> NAttrs]]

\* lines 397-399
ExtentPasskeyTooBig(sizes, curr_extent_i, attrs) ==
    curr_extent_i # None /\ sizes[curr_extent_i] < Cardinality(attrs)

\* lines 386-417: one iteration of the while loop; the stack is popped at its end
KeysForExtentsIter(exts, aexts, n_objs, flag, st) ==
    LET sorted == SortedExtents(exts)[1]
        attrs == st.stack[Len(st.stack)]
        rest == [st EXCEPT !.stack = SubSeq(st.stack, 1, Len(st.stack) - 1)]
        curr_extent == CurrExtent(aexts, n_objs, attrs)
        curr_extent_i == extents_idx_map(sorted, curr_extent)
        support == Cardinality(curr_extent)
    IN IF SubDescriptionNotKey(st.kd, attrs) THEN rest
       ELSE IF flag /\ ExtentPasskeyTooBig(st.sizes, curr_extent_i, attrs) THEN rest
       ELSE IF SubDescriptionSameSupport(st.kd, attrs, support) THEN rest
       ELSE [kd |-> Append(st.kd, <<attrs, <<support, curr_extent_i>> >>),
             sizes |-> IF flag /\ curr_extent_i # None
                       THEN [st.sizes EXCEPT ![curr_extent_i] = Cardinality(attrs)]
                       ELSE st.sizes,
             stack |-> IF has_smaller_extents(sorted, curr_extent, curr_extent_i)
                       THEN rest.stack \o Extensions(attrs)
                       ELSE rest.stack]

\* lines 419-420: the entries of a listed extent, with the position the
\* extent had in the list supplied
KeysForExtentsResult(exts, kd) ==
    LET listed == SelectSeq(kd, LAMBDA e : e[2][2] # None)
    IN [k \in DOMAIN listed |-> <<listed[k][1], topsort_to_orig_idx_map(exts, listed[k][2][2])>>]

RECURSIVE KeysForExtentsLoop(_, _, _, _, _)
KeysForExtentsLoop(exts, aexts, n_objs, flag, st) ==
    IF st.stack = <<>> THEN KeysForExtentsResult(exts, st.kd)
    ELSE KeysForExtentsLoop(exts, aexts, n_objs, flag,
                            KeysForExtentsIter(exts, aexts, n_objs, flag, st))
\* lines 361-420; an empty list of extents has no extents[-1] (line 373)
list_keys_for_extents(exts, aexts, n_objs, flag) ==
    IF exts = <<>> THEN [err |-> "IndexError", keys |-> <<>>]
    ELSE [err |-> "none",
          keys |-> KeysForExtentsLoop(exts, aexts, n_objs, flag,
                                      KeysForExtentsStart(exts, aexts, n_objs, flag))]
\* lines 423-426
list_passkeys_for_extents(exts, aexts, n_objs) == list_keys_for_extents(exts, aexts, n_objs, TRUE)

\* The extents of a context in the order of its intents, and the lists
\* obtained by leaving one of them out
ExtentsOf(ctx, ints) == [i \in DOMAIN ints |-> Extent(ctx, ints[i])]
WithoutOne(s, k) == [j \in 1 .. (Len(s) - 1) |-> IF j < k THEN s[j] ELSE s[j + 1]]
ExtentLists(ctx, ints) ==
    {ExtentsOf(ctx, ints)} \cup
    {WithoutOne(ExtentsOf(ctx, ints), k) : k \in IF Len(ints) >= 2 THEN DOMAIN ints ELSE {}}

ExtInit ==
    /\ itemsets \in Contexts
    /\ intents \in SortedIntentLists(itemsets)
    /\ extents \in ExtentLists(itemsets, intents)
    /\ attr_extents = [k \in 1 .. NAttrs |-> Extent(itemsets, {k - 1})]
    /\ only_passkeys \in BOOLEAN
    /\ keys_dict = KeysForExtentsStart(extents, attr_extents, Len(itemsets), only_passkeys).kd
    /\ testing_stack = KeysForExtentsStart(extents, attr_extents, Len(itemsets), only_passkeys).stack
    /\ passkey_sizes = KeysForExtentsStart(extents, attr_extents, Len(itemsets), only_passkeys).sizes
    /\ attrs_to_test = <<>>
    /\ keys_for_extents = <<>>
    /\ pc = "list_keys_for_extents"
    /\ LcmIdle /\ GsofiaIdle /\ BasesIdle /\ SatIdle /\ OrderIdle /\ ClosureIdle /\ IoIdle /\ IndexIdle

KeysForExtentsStep ==
    /\ pc = "list_keys_for_extents"
    /\ testing_stack # <<>>
    /\ LET st == KeysForExtentsIter(extents, attr_extents, Len(itemsets), only_passkeys,
                     [kd |-> keys_dict, stack |-> testing_stack, sizes |-> passkey_sizes])
       IN /\ keys_dict' = st.kd
          /\ testing_stack' = st.stack
          /\ passkey_sizes' = st.sizes
    /\ UNCHANGED <<pc, ctxVars, only_passkeys, attrs_to_test, extents, attr_extents,
                   keys_for_extents, notExt>>

KeysForExtentsReturn ==
    /\ pc = "list_keys_for_extents"
    /\ testing_stack = <<>>
    /\ keys_for_extents' = KeysForExtentsResult(extents, keys_dict)
    /\ pc' = "keys_for_extents_done"
    /\ UNCHANGED <<ctxVars, keysVars, extents, attr_extents, testing_stack, notExt>>

ExtNext == KeysForExtentsStep \/ KeysForExtentsReturn

SpecKeysForExtents == ExtInit /\ [][ExtNext]_vars

KeysOfExtent(ctx, X) ==
    {A \in MSets : /\ Extent(ctx, A) = X
                   /\ \A m \in A : Extent(ctx, A \ {m}) # X}
PasskeysOfExtent(ctx, X) ==
    {A \in KeysOfExtent(ctx, X) :
        \A B \in KeysOfExtent(ctx, X) : Cardinality(A) <= Cardinality(B)}

\* C12: list_passkeys_for_extents returns, for each listed extent, exactly its
\* keys of minimum cardinality, mapped to the position of the extent.
C12_PasskeysForExtentsExact ==
    (pc = "keys_for_extents_done" /\ only_passkeys) =>
        Range(keys_for_extents) =
            {<<A, i>> : A \in MSets, i \in DOMAIN extents} \cap
            {e \in MSets \X (DOMAIN extents) : e[1] \in PasskeysOfExtent(itemsets, extents[e[2]])}

----------------------------------------------------------------------------
(* list_keys_for_extents on any list of up to MaxListed distinct extents   *)
(* of a context, in any order.                                             *)

MaxListed == 3

\* the extents of a context: the objects shared by some attribute set
ContextExtents(ctx) == {Extent(ctx, A) : A \in MSets}

\* the lists of up to n distinct elements of S, in every order
DistinctLists(S, n) ==
    UNION {{l \in [1 .. k -> S] : \A i, j \in 1 .. k : l[i] = l[j] => i = j} : k \in 0 .. n}

AnyExtentsInit ==
    /\ itemsets \in Contexts
    /\ intents = <<>>
    /\ extents \in DistinctLists(ContextExtents(itemsets), MaxListed)
    /\ attr_extents = [k \in 1 .. NAttrs |-> Extent(itemsets, {k - 1})]
    /\ only_passkeys = FALSE
    /\ keys_dict = IF extents = <<>> THEN <<>>
                   ELSE KeysForExtentsStart(extents, attr_extents, Len(itemsets), FALSE).kd
    /\ testing_stack = IF extents = <<>> THEN <<>>
                       ELSE KeysForExtentsStart(extents, attr_extents, Len(itemsets), FALSE).stack
    /\ passkey_sizes = IF extents = <<>> THEN <<>>
                       ELSE KeysForExtentsStart(extents, attr_extents, Len(itemsets), FALSE).sizes
    /\ attrs_to_test = <<>>
    /\ keys_for_extents = <<>>
    /\ pc = "list_keys_for_extents"
    /\ LcmIdle /\ GsofiaIdle /\ BasesIdle /\ SatIdle /\ OrderIdle /\ ClosureIdle /\ IoIdle /\ IndexIdle

\* line 373: extents[-1] of an empty list
KeysForExtentsNoExtent ==
    /\ pc = "list_keys_for_extents"
    /\ extents = <<>>
    /\ pc' = "list_keys_for_extents raised IndexError"
    /\ UNCHANGED <<ctxVars, keysVars, extVars, notExt>>

KeysForExtentsFinish ==
    /\ extents # <<>>
    /\ KeysForExtentsReturn

AnyExtentsNext == KeysForExtentsNoExtent \/ KeysForExtentsStep \/ KeysForExtentsFinish

SpecKeysForAnyExtents == AnyExtentsInit /\ [][AnyExtentsNext]_vars

\* C25: for any list of distinct extents of a context, in any order,
\* list_keys_for_extents returns exactly the pairs (A, i) where A is a
\* minimal generator whose extent is extents[i], i being the position in the
\* list supplied; minimal generators of other extents are left out.
C25_KeysOfListedExtents ==
    pc # "list_keys_for_extents" =>
        /\ pc = "keys_for_extents_done"
        /\ Range(keys_for_extents) =
              {e \in MSets \X (DOMAIN extents) : e[1] \in KeysOfExtent(itemsets, extents[e[2]])}
        /\ NoDuplicates(keys_for_extents)

----------------------------------------------------------------------------
(* The functions that require ascending intents, called on arbitrary lists *)
(* of up to MaxIntents attribute sets.                                     *)

MaxIntents == 3

\* lines 300-351 of mine_equivalence_classes.py, the assert of line 302 and
\* the intents[-1] of line 305 included
ListKeysCall(ints, flag) ==
    IF ~IsAscending(ints) THEN [err |-> "AssertionError", keys |-> <<>>]
    ELSE IF ints = <<>> THEN [err |-> "IndexError", keys |-> <<>>]
    ELSE [err |-> "none", keys |-> list_keys(ints, flag)]

\* lines 228-289 of implication_bases.py, the assert of line 232 included
ListPseudoIntentsCall(kim, ints) ==
    IF ~IsAscending(ints) THEN [err |-> "AssertionError", pseudo_intents |-> <<>>]
    ELSE [err |-> "none", pseudo_intents |-> list_pseudo_intents_via_keys(kim, ints)]

Outcome(fn, err) == IF err = "none" THEN fn \o " returned" ELSE fn \o " raised " \o err

AssertInit ==
    /\ intents \in UNION {[1 .. n -> MSets] : n \in 1 .. MaxIntents}
    /\ keys_intent_map \in {<<>>, <<(<<{}, 1>>)>>}
    /\ itemsets = <<>>
    /\ premises = <<>> /\ n_consumed = 0 /\ pseudo_intents = <<>>
    /\ pc = "call"
    /\ KeysIdle /\ LcmIdle /\ GsofiaIdle /\ SatIdle /\ OrderIdle /\ ExtIdle /\ ClosureIdle /\ IoIdle /\ IndexIdle

CallListKeys ==
    /\ pc = "call"
    /\ keys_dict' = ListKeysCall(intents, FALSE).keys
    /\ pc' = Outcome("list_keys", ListKeysCall(intents, FALSE).err)
    /\ UNCHANGED <<ctxVars, only_passkeys, attrs_to_test, passkey_sizes, basesVars, notBases>>

CallListPasskeys ==
    /\ pc = "call"
    /\ only_passkeys' = TRUE
    /\ keys_dict' = ListKeysCall(intents, TRUE).keys
    /\ pc' = Outcome("list_passkeys", ListKeysCall(intents, TRUE).err)
    /\ UNCHANGED <<ctxVars, attrs_to_test, passkey_sizes, basesVars, notBases>>

CallSortIntentsInclusion ==
    /\ pc = "call"
    /\ lattice' = sort_intents_inclusion(intents).lattice
    /\ pc' = Outcome("sort_intents_inclusion", sort_intents_inclusion(intents).err)
    /\ UNCHANGED <<ctxVars, notOrder>>

CallListPseudoIntents ==
    /\ pc = "call"
    /\ pseudo_intents' = ListPseudoIntentsCall(keys_intent_map, intents).pseudo_intents
    /\ n_consumed' = IF ListPseudoIntentsCall(keys_intent_map, intents).err = "none"
                     THEN Len(keys_intent_map) ELSE 0
    /\ pc' = Outcome("list_pseudo_intents_via_keys",
                     ListPseudoIntentsCall(keys_intent_map, intents).err)
    /\ UNCHANGED <<ctxVars, keysVars, premises, keys_intent_map, notBases>>

AssertNext ==
    CallListKeys \/ CallListPasskeys \/ CallSortIntentsInclusion \/ CallListPseudoIntents

SpecAsserts == AssertInit /\ [][AssertNext]_vars

\* some intent is immediately followed by one of strictly smaller cardinality
HasDescent(ints) ==
    \E i \in 1 .. (Len(ints) - 1) : Cardinality(ints[i]) > Cardinality(ints[i + 1])

\* C14: on an intent list in which some intent is immediately followed by a
\* strictly smaller one, list_keys, list_passkeys, sort_intents_inclusion and
\* list_pseudo_intents_via_keys raise an assertion error and produce nothing.
C14_AssertionOnDescent ==
    (pc # "call" /\ HasDescent(intents)) =>
        /\ pc \in {"list_keys raised AssertionError", "list_passkeys raised AssertionError",
                   "sort_intents_inclusion raised AssertionError",
                   "list_pseudo_intents_via_keys raised AssertionError"}
        /\ keys_dict = <<>> /\ lattice = <<>> /\ pseudo_intents = <<>>

\* list_pseudo_intents_via_keys has raised on a list whose descent is at its
\* end, with a candidate supplied
C14_Witness ==
    /\ pc = "list_pseudo_intents_via_keys raised AssertionError"
    /\ Len(intents) = MaxIntents
    /\ Cardinality(intents[1]) <= Cardinality(intents[2])
    /\ Cardinality(intents[2]) > Cardinality(intents[3])
    /\ keys_intent_map # <<>>

----------------------------------------------------------------------------
(* The chain list_intents_via_LCM -> list_keys ->                          *)
(* iter_proper_premises_via_keys -> list_pseudo_intents_via_keys on a      *)
(* context, with the default minimum support 0.                            *)

\* the premises paired with their intent index, sorted by (intent index, size):
\* a stable insertion of t into the sorted list s
RECURSIVE InsertByIndexAndSize(_, _)
InsertByIndexAndSize(s, t) ==
    IF s = <<>> THEN <<t>>
    ELSE IF \/ Head(s)[2] < t[2]
            \/ Head(s)[2] = t[2] /\ Cardinality(Head(s)[1]) <= Cardinality(t[1])
    THEN <<Head(s)>> \o InsertByIndexAndSize(Tail(s), t)
    ELSE <<t>> \o s
RECURSIVE SortedByIndexAndSize(_)
SortedByIndexAndSize(s) ==
    IF s = <<>> THEN <<>>
    ELSE InsertByIndexAndSize(SortedByIndexAndSize(SubSeq(s, 1, Len(s) - 1)), s[Len(s)])
PremisesWithIndex(prems, kd) ==
    SortedByIndexAndSize([k \in DOMAIN prems |-> <<prems[k], DictGet(kd, prems[k])>>])

PipelineInit ==
    /\ itemsets \in Contexts
    /\ intents = <<>>
    /\ min_supp = 0 /\ lcm_out = <<>>
    /\ pc = "pipeline"
    /\ KeysIdle /\ BasesIdle /\ GsofiaIdle /\ SatIdle /\ OrderIdle /\ ExtIdle /\ ClosureIdle /\ IoIdle /\ IndexIdle

PipelineIntents ==
    /\ pc = "pipeline"
    /\ lcm_out' = list_intents_via_LCM(itemsets, min_supp)
    /\ intents' = list_intents_via_LCM(itemsets, min_supp).intents
    /\ pc' = IF list_intents_via_LCM(itemsets, min_supp).err = "none" THEN "intents listed"
             ELSE Outcome("list_intents_via_LCM", list_intents_via_LCM(itemsets, min_supp).err)
    /\ UNCHANGED <<itemsets, min_supp, notLcm>>

PipelineKeys ==
    /\ pc = "intents listed"
    /\ keys_dict' = ListKeysCall(intents, FALSE).keys
    /\ pc' = IF ListKeysCall(intents, FALSE).err = "none" THEN "keys listed"
             ELSE Outcome("list_keys", ListKeysCall(intents, FALSE).err)
    /\ UNCHANGED <<ctxVars, only_passkeys, attrs_to_test, passkey_sizes, notKeys>>

PipelinePremises ==
    /\ pc = "keys listed"
    /\ premises' = iter_proper_premises_via_keys(intents, keys_dict).premises
    /\ pc' = IF iter_proper_premises_via_keys(intents, keys_dict).err = "none"
             THEN "premises listed"
             ELSE Outcome("iter_proper_premises_via_keys",
                          iter_proper_premises_via_keys(intents, keys_dict).err)
    /\ UNCHANGED <<ctxVars, keysVars, keys_intent_map, n_consumed, pseudo_intents, notBases>>

PipelinePseudoIntents ==
    /\ pc = "premises listed"
    /\ keys_intent_map' = PremisesWithIndex(premises, keys_dict)
    /\ n_consumed' = Len(premises)
    /\ pseudo_intents' =
          ListPseudoIntentsCall(PremisesWithIndex(premises, keys_dict), intents).pseudo_intents
    /\ pc' = "pipeline done"
    /\ UNCHANGED <<ctxVars, keysVars, premises, notBases>>

PipelineNext == PipelineIntents \/ PipelineKeys \/ PipelinePremises \/ PipelinePseudoIntents

SpecPipeline == PipelineInit /\ [][PipelineNext]_vars

PipelineRaised ==
    pc \notin {"pipeline", "intents listed", "keys listed", "premises listed", "pipeline done"}

\* C16: for a context with no objects the chain completes without raising and
\* yields exactly one intent (all attributes), exactly one key (the empty
\* set), no proper premises and no pseudo-intents.
C16_EmptyContextPipeline ==
    itemsets = <<>> =>
        /\ ~PipelineRaised
        /\ pc = "pipeline done" =>
              /\ intents = <<Attrs>>
              /\ keys_dict = <<(<<{}, 1>>)>>
              /\ premises = <<>>
              /\ pseudo_intents = <<>>

----------------------------------------------------------------------------
(* extension / intention / closure of base_functions.py and closure of     *)
(* definitions.py, on the columns of a context.  Object g of the sources   *)
(* is object g + 1 here.                                                   *)

\* every context of up to NObjs objects, the rows in any order
AllContexts == UNION {[1 .. n -> MSets] : n \in 0 .. NObjs}

\* crosses_per_columns: for each attribute, the objects that have it
crosses_per_columns(ctx) == [k \in 1 .. NAttrs |-> {g \in DOMAIN ctx : (k - 1) \in ctx[g]}]

\* A & B == A
is_subset_of(A, B) == A \cap B = A

\* base_functions.py lines 34-40; max() of no column raises ValueError
extension(descr, cols) ==
    IF \A k \in DOMAIN cols : cols[k] = {} THEN [err |-> "ValueError", extent |-> {}]
    ELSE LET n_rows == SetMax({SetMax(cols[k]) : k \in {j \in DOMAIN cols : cols[j] # {}}})
         IN [err |-> "none",
             extent |-> {g \in 1 .. n_rows : \A m \in descr : g \in cols[m + 1]}]

\* base_functions.py lines 43-45
intention(objects, cols) == {k - 1 : k \in {j \in DOMAIN cols : is_subset_of(objects, cols[j])}}

\* base_functions.py lines 48-64
closure(descr, cols) ==
    IF extension(descr, cols).err # "none"
    THEN [err |-> extension(descr, cols).err, intent |-> {}]
    ELSE [err |-> "none", intent |-> intention(extension(descr, cols).extent, cols)]

\* definitions.py lines 27-35; max(col) of an empty column raises ValueError,
\* and range(n_rows) stops before the object of the highest index
definitions_closure(B, cols) ==
    IF cols = <<>> \/ \E k \in DOMAIN cols : cols[k] = {} THEN [err |-> "ValueError", intent |-> {}]
    ELSE LET n_rows == SetMax({SetMax(cols[k]) : k \in DOMAIN cols}) - 1
             extent == {g \in 1 .. n_rows : \A m \in B : g \in cols[m + 1]}
         IN [err |-> "none",
             intent |-> {k - 1 : k \in {j \in DOMAIN cols :
                                           (j - 1) \in B \/ is_subset_of(extent, cols[j])}}]

ClosureInit ==
    /\ itemsets \in AllContexts
    /\ description \in MSets
    /\ closure_out = <<>>
    /\ intents = <<>>
    /\ pc = "closure"
    /\ KeysIdle /\ LcmIdle /\ GsofiaIdle /\ BasesIdle /\ SatIdle /\ OrderIdle /\ ExtIdle /\ IoIdle /\ IndexIdle

BaseFunctionsClosure ==
    /\ pc = "closure"
    /\ closure_out' = closure(description, crosses_per_columns(itemsets))
    /\ pc' = "base_functions.closure done"
    /\ UNCHANGED <<itemsets, description, notClosure>>

DefinitionsClosure ==
    /\ pc = "closure"
    /\ closure_out' = definitions_closure(description, crosses_per_columns(itemsets))
    /\ pc' = "definitions.closure done"
    /\ UNCHANGED <<itemsets, description, notClosure>>

ClosureNext == BaseFunctionsClosure \/ DefinitionsClosure

SpecClosure == ClosureInit /\ [][ClosureNext]_vars

\* C17: closure(B), of base_functions and of definitions alike, is the set of
\* attributes possessed by every object that has all attributes of B, the
\* objects ranging over all objects of the context.
C17_ClosureIsGalois ==
    pc # "closure" =>
        /\ closure_out.err = "none"
        /\ closure_out.intent = Closure(itemsets, description)

----------------------------------------------------------------------------
(* transpose_context and identify_supported_context_type  (io.py)          *)
(* A context value is a record: shape is the Python container ("list",     *)
(* "tuple" of crosses and two name lists, "dict", "DataFrame"), rows is    *)
(* the kind of one row ("set", "bitarray", "list" of bools), crosses the   *)
(* rows themselves, objects and attributes the name lists (index and       *)
(* columns of a DataFrame).  A dict is a function from names to sets of    *)
(* names.  Attribute and object numbers inside crosses are Python's.       *)

NTransposeObjs == 3
NTransposeAttrs == 2

ObjName(i) == "g" \o ToString(i)
AttrName(j) == "m" \o ToString(j)

Forms == {"itemset", "named_itemset", "bitarray", "named_bitarray",
          "bool", "named_bool", "dict", "pandas"}

\* the context of n objects over m attributes, rel[i] being the attributes
\* of object i, written in one of the supported formats (lines 14-21)
Represent(form, rel, m) ==
    LET n == Len(rel)
        bools == [i \in 1 .. n |-> [j \in 1 .. m |-> (j - 1) \in rel[i]]]
        objs == [i \in 1 .. n |-> ObjName(i)]
        attrs == [j \in 1 .. m |-> AttrName(j)]
        val(shape, rows, crosses, os, as) ==
            [shape |-> shape, rows |-> rows, crosses |-> crosses, objects |-> os, attributes |-> as]
    IN CASE form = "itemset" -> val("list", "set", rel, <<>>, <<>>)
         [] form = "named_itemset" -> val("tuple", "set", rel, objs, attrs)
         [] form = "bitarray" -> val("list", "bitarray", bools, <<>>, <<>>)
         [] form = "named_bitarray" -> val("tuple", "bitarray", bools, objs, attrs)
         [] form = "bool" -> val("list", "list", bools, <<>>, <<>>)
         [] form = "named_bool" -> val("tuple", "list", bools, objs, attrs)
         [] form = "dict" ->
                val("dict", "set",
                    [g \in {ObjName(i) : i \in 1 .. n} |->
                        {AttrName(j + 1) : j \in rel[CHOOSE i \in 1 .. n : ObjName(i) = g]}],
                    <<>>, <<>>)
         [] form = "pandas" -> val("DataFrame", "list", bools, objs, attrs)

\* len(data)
PyLen(d) ==
    CASE d.shape = "list" -> Len(d.crosses)
      [] d.shape = "tuple" -> 3
      [] d.shape = "dict" -> Cardinality(DOMAIN d.crosses)
      [] d.shape = "DataFrame" -> Len(d.objects)

\* len(row)
RowLen(row, rows) == IF rows = "set" THEN Cardinality(row) ELSE Len(row)

\* all(isinstance(v, str) for v in row), all(isinstance(v, bool) for v in row):
\* the elements of a set are ints, those of a bitarray are ints, those of a
\* list are bools, so each holds of the empty row and the second of a list
AllStr(row, rows) == RowLen(row, rows) = 0
AllBool(row, rows) == rows = "list" \/ RowLen(row, rows) = 0

\* lines 454-477.  The value is the name of the type, "None", or the error
\* raised by an index into an empty list.  A row is a Sequence when it is a
\* list (a set is not one; neither is taken to be a bitarray of no bit,
\* which no context drawn below has).
identify_supported_context_type(context) ==
    LET is_pandas == context.shape = "DataFrame"
        is_dict == context.shape = "dict"
        is_named ==
            \/ context.shape = "tuple"
            \/ /\ context.shape = "list"
               /\ Len(context.crosses) = 3
               /\ AllStr(context.crosses[2], context.rows)
               /\ AllStr(context.crosses[3], context.rows)
        listlike == context.shape \in {"list", "tuple"}
        \* crosses_data is a row when an unnamed list passes for a named one
        of_row == context.shape = "list" /\ is_named
        is_sequence == listlike /\ (of_row => context.rows = "list")
        empty_data == IF of_row THEN RowLen(context.crosses[1], context.rows) = 0
                      ELSE Len(context.crosses) = 0
        is_bitarrays == is_sequence /\ ~of_row /\ context.rows = "bitarray"
        is_bools == is_sequence /\ ~of_row
                    /\ \A i \in DOMAIN context.crosses : AllBool(context.crosses[i], context.rows)
        first_empty == RowLen(context.crosses[1], context.rows) = 0
        is_itemsets == is_sequence /\ ~is_bitarrays /\ ~is_bools
        selected ==
            (IF is_pandas THEN {"PandasContextType"} ELSE {})
            \cup (IF is_dict THEN {"DictContextType"} ELSE {})
            \cup (IF ~is_named /\ is_itemsets THEN {"ItemsetContextType"} ELSE {})
            \cup (IF is_named /\ is_itemsets THEN {"NamedItemsetContextType"} ELSE {})
            \cup (IF ~is_named /\ is_bitarrays THEN {"BitarrayContextType"} ELSE {})
            \cup (IF is_named /\ is_bitarrays THEN {"NamedBitarrayContextType"} ELSE {})
            \cup (IF ~is_named /\ is_bools THEN {"BoolContextType"} ELSE {})
            \cup (IF is_named /\ is_bools THEN {"NamedBoolContextType"} ELSE {})
    IN IF is_sequence /\ empty_data THEN [err |-> "IndexError", type |-> "None"]
       ELSE IF is_itemsets /\ first_empty THEN [err |-> "IndexError", type |-> "None"]
       ELSE IF Cardinality(selected) # 1 THEN [err |-> "none", type |-> "None"]
       ELSE [err |-> "none", type |-> CHOOSE t \in selected : TRUE]

\* lines 425-431: IndexError when an attribute number reaches n_attrs
TransposeItemsets(crosses_data, n_attrs) ==
    IF \E i \in DOMAIN crosses_data : \E a \in crosses_data[i] : a >= n_attrs
    THEN [err |-> "IndexError", crosses |-> <<>>]
    ELSE [err |-> "none",
          crosses |-> [k \in 1 .. n_attrs |->
                          {i - 1 : i \in {ii \in DOMAIN crosses_data : (k - 1) \in crosses_data[ii]}}]]

\* lines 433-446, and DataFrame.T: the matrix of n_attrs rows and n_objs columns
TransposeMatrix(crosses_data, n_attrs) ==
    [j \in 1 .. n_attrs |-> [i \in 1 .. Len(crosses_data) |-> crosses_data[i][j]]]

\* lines 414-421
TransposeDict(dict) ==
    [attr \in UNION {dict[obj] : obj \in DOMAIN dict} |-> {obj \in DOMAIN dict : attr \in dict[obj]}]

\* lines 390-451
transpose_context(d) ==
    IF PyLen(d) = 0 THEN [err |-> "none", data |-> d]
    ELSE
    LET id == identify_supported_context_type(d)
        data_type == id.type
        is_named == data_type \in {"NamedItemsetContextType", "NamedBitarrayContextType",
                                   "NamedBoolContextType"}
        crosses_data == d.crosses
        out(rows, crosses) ==
            [err |-> "none",
             data |-> IF is_named
                      THEN [shape |-> "tuple", rows |-> rows, crosses |-> crosses,
                            objects |-> d.attributes, attributes |-> d.objects]
                      ELSE [shape |-> "list", rows |-> rows, crosses |-> crosses,
                            objects |-> <<>>, attributes |-> <<>>]]
    IN IF id.err # "none" THEN [err |-> id.err, data |-> <<>>]
       ELSE IF data_type = "PandasContextType"
       THEN [err |-> "none",
             data |-> [shape |-> "DataFrame", rows |-> "list",
                       crosses |-> TransposeMatrix(d.crosses, Len(d.attributes)),
                       objects |-> d.attributes, attributes |-> d.objects]]
       ELSE IF data_type = "DictContextType"
       THEN [err |-> "none",
             data |-> [shape |-> "dict", rows |-> "set", crosses |-> TransposeDict(d.crosses),
                       objects |-> <<>>, attributes |-> <<>>]]
       ELSE IF data_type \in {"NamedItemsetContextType", "ItemsetContextType"}
       THEN LET n_attrs == IF is_named THEN Len(d.attributes)
                           ELSE Cardinality(UNION {crosses_data[i] : i \in DOMAIN crosses_data})
                t == TransposeItemsets(crosses_data, n_attrs)
            IN IF t.err # "none" THEN [err |-> t.err, data |-> <<>>] ELSE out("set", t.crosses)
       ELSE IF data_type \in {"NamedBitarrayContextType", "BitarrayContextType"}
       THEN out("bitarray", TransposeMatrix(crosses_data, RowLen(crosses_data[1], d.rows)))
       ELSE IF data_type \in {"NamedBoolContextType", "BoolContextType"}
       THEN out("list", TransposeMatrix(crosses_data, RowLen(crosses_data[1], d.rows)))
       \* no branch assigned `transposed` (line 451)
       ELSE [err |-> "UnboundLocalError", data |-> <<>>]

\* Python's == on two context values: a frozenset equals the set of the same
\* elements, so the kind of the rows is not compared
SameContext(a, b) ==
    /\ a.shape = b.shape
    /\ a.crosses = b.crosses
    /\ a.objects = b.objects
    /\ a.attributes = b.attributes

TransposeInit ==
    /\ \E form \in Forms, n \in 0 .. NTransposeObjs, m \in 1 .. NTransposeAttrs :
          \E rel \in [1 .. n -> SUBSET (0 .. (m - 1))] : data = Represent(form, rel, m)
    /\ transposed = <<>>
    /\ transposed_twice = <<>>
    /\ pc = "transpose"
    /\ itemsets = <<>> /\ intents = <<>>
    /\ KeysIdle /\ LcmIdle /\ GsofiaIdle /\ BasesIdle /\ SatIdle /\ OrderIdle /\ ExtIdle /\ ClosureIdle /\ IndexIdle

Transpose ==
    /\ pc = "transpose"
    /\ transposed' = transpose_context(data)
    /\ pc' = "transposed"
    /\ UNCHANGED <<data, transposed_twice, notIo>>

TransposeBack ==
    /\ pc = "transposed"
    /\ transposed.err = "none"
    /\ transposed_twice' = transpose_context(transposed.data)
    /\ pc' = "transposed twice"
    /\ UNCHANGED <<data, transposed, notIo>>

TransposeNext == Transpose \/ TransposeBack

SpecTranspose == TransposeInit /\ [][TransposeNext]_vars

\* C19: for every context in each supported representation,
\* transpose_context(transpose_context(ctx)) equals ctx.
C19_TransposeTwice ==
    /\ pc = "transposed" => transposed.err = "none"
    /\ pc = "transposed twice" =>
          /\ transposed_twice.err = "none"
          /\ SameContext(transposed_twice.data, data)

----------------------------------------------------------------------------
(* definitions.is_proper_premise against iter_proper_premises_via_keys     *)

\* definitions.py lines 43-44
is_closed(B, cols) ==
    [err |-> definitions_closure(B, cols).err,
     value |-> B = definitions_closure(B, cols).intent]

\* definitions.py lines 75-94: Q is not closed and no Q - {n} has the closure
\* of Q; an exception of closure passes through
is_proper_premise(Q, cols) ==
    IF is_closed(Q, cols).err # "none" THEN [err |-> is_closed(Q, cols).err, value |-> FALSE]
    ELSE IF is_closed(Q, cols).value THEN [err |-> "none", value |-> FALSE]
    ELSE [err |-> "none",
          value |-> \A n \in Q : definitions_closure(Q \ {n}, cols).intent
                                   # definitions_closure(Q, cols).intent]

ProperPremiseInit ==
    /\ itemsets \in Contexts
    /\ intents \in SortedIntentLists(itemsets)
    /\ only_passkeys = FALSE
    /\ keys_dict = list_keys(intents, FALSE)
    /\ attrs_to_test = <<>>
    /\ passkey_sizes = <<>>
    /\ description \in MSets
    /\ closure_out = <<>>
    /\ pc = "proper_premises"
    /\ BasesIdle /\ LcmIdle /\ GsofiaIdle /\ SatIdle /\ OrderIdle /\ ExtIdle /\ IoIdle /\ IndexIdle

\* the brute-force test of the description
IsProperPremise ==
    /\ pc = "pp_done"
    /\ closure_out' = is_proper_premise(description, crosses_per_columns(itemsets))
    /\ pc' = "is_proper_premise done"
    /\ UNCHANGED <<itemsets, description, notClosure>>

ProperPremiseNext == IterProperPremises \/ IsProperPremise

SpecProperPremise == ProperPremiseInit /\ [][ProperPremiseNext]_vars

\* C26: definitions.is_proper_premise(Q, context) is true exactly when
\* iter_proper_premises_via_keys emits Q on that context.
C26_BruteForceAgrees ==
    pc = "is_proper_premise done" =>
        /\ closure_out.err = "none"
        /\ closure_out.value <=> (description \in Range(premises))

----------------------------------------------------------------------------
(* distributivity_index  (indices.py), include_top_bottom = True           *)
(* A pair is <<mother, father>>, two positions of the intent list.         *)

\* test_topologically_sorted(intents): the sizes never decrease
test_topologically_sorted(elements) ==
    \A i \in 1 .. (Len(elements) - 1) : Cardinality(elements[i]) <= Cardinality(elements[i + 1])

\* a pair the loop never takes for visited
NeverVisited(pair, visited_pairs) == FALSE
\* line 132: pair in visited_pairs or pair[::-1] in visited_pairs
AlreadyVisited(pair, visited_pairs) ==
    pair \in visited_pairs \/ <<pair[2], pair[1]>> \in visited_pairs

\* [x for x in S.itersearch(True) if intents[other] | intents[x] == intent]
JoiningWith(ints, i, other, S) ==
    LET joins(x) == (ints[other] \cup ints[x]) = ints[i]
    IN SelectSeq(IndexList(S), joins)

\* lines 123-127: the pairs of parents of the intent whose union is the intent
RECURSIVE FirstPairs(_, _, _, _)
FirstPairs(ints, pars, i, mothers) ==
    IF mothers = {} THEN <<>>
    ELSE LET mother == SetMin(mothers)
             fathers == JoiningWith(ints, i, mother, {f \in pars[i] : mother < f})
         IN [k \in DOMAIN fathers |-> <<mother, fathers[k]>>]
                \o FirstPairs(ints, pars, i, mothers \ {mother})

\* lines 129-148: the deque is emptied from the left; a pair not yet visited
\* counts once and puts on the deque its pairs with a parent of either side
RECURSIVE DistrWalk(_, _, _, _, _, _)
DistrWalk(ints, pars, i, distr_ancestors, visited_pairs, count) ==
    IF distr_ancestors = <<>> THEN count
    ELSE LET pair == Head(distr_ancestors)
             mother == pair[1]
             father == pair[2]
             gfathers == JoiningWith(ints, i, mother, pars[father])
             gmothers == JoiningWith(ints, i, father, pars[mother])
         IN IF AlreadyVisited(pair, visited_pairs)
            THEN DistrWalk(ints, pars, i, Tail(distr_ancestors), visited_pairs, count)
            ELSE DistrWalk(ints, pars, i,
                           Tail(distr_ancestors)
                               \o [k \in DOMAIN gfathers |-> <<mother, gfathers[k]>>]
                               \o [k \in DOMAIN gmothers |-> <<gmothers[k], father>>],
                           visited_pairs \cup {pair}, count + 1)

\* lines 119-148: what one pass of the loop over the intents adds to n_distr
DistrOfIntent(ints, pars, i) ==
    DistrWalk(ints, pars, i, FirstPairs(ints, pars, i, pars[i]), {}, 0)

\* the lower covers of the intent at position i
LowerCovers(ints, i) == {j \in DOMAIN ints : i \in UpperCovers(ints, j)}
\* the pairs of positions of the list, one strictly inside the other
ComparablePairs(ints) ==
    {pr \in (DOMAIN ints) \X (DOMAIN ints) : StrictlyInside(ints[pr[1]], ints[pr[2]])}

IndexInit ==
    /\ itemsets \in Contexts
    /\ intents \in SortedIntentLists(itemsets)
    /\ parents = [i \in DOMAIN intents |-> LowerCovers(intents, i)]
    /\ n_trans_parents = Cardinality(ComparablePairs(intents))
    /\ intent_idx = 0
    /\ n_distr = 0
    /\ distributivity = <<>>
    /\ pc = "distributivity_index"
    /\ KeysIdle /\ LcmIdle /\ GsofiaIdle /\ BasesIdle /\ SatIdle /\ OrderIdle /\ ExtIdle
    /\ ClosureIdle /\ IoIdle

\* lines 115-117
DistributivityStart ==
    /\ pc = "distributivity_index"
    /\ n_distr' = IF test_topologically_sorted(intents) THEN n_trans_parents ELSE n_distr
    /\ pc' = IF test_topologically_sorted(intents) THEN "enumerate intents" ELSE "AssertionError"
    /\ UNCHANGED <<ctxVars, parents, n_trans_parents, intent_idx, distributivity, notIndex>>

\* lines 119-148: one intent of the loop
DistributivityStep ==
    /\ pc = "enumerate intents"
    /\ intent_idx < Len(intents)
    /\ intent_idx' = intent_idx + 1
    /\ n_distr' = n_distr + DistrOfIntent(intents, parents, intent_idx + 1)
    /\ UNCHANGED <<pc, ctxVars, parents, n_trans_parents, distributivity, notIndex>>

\* lines 150-159, include_top_bottom = True; the value returned is kept as
\* the two terms of the division
DistributivityReturn ==
    /\ pc = "enumerate intents"
    /\ intent_idx = Len(intents)
    /\ LET n_intents == Len(intents)
           n_pairs == (n_intents * (n_intents - 1)) \div 2
       IN /\ distributivity' = IF n_distr > n_pairs THEN <<>> ELSE <<n_distr, n_pairs>>
          /\ pc' = IF n_distr > n_pairs THEN "ValueError" ELSE "distributivity_index done"
    /\ UNCHANGED <<ctxVars, parents, n_trans_parents, intent_idx, n_distr, notIndex>>

IndexNext == DistributivityStart \/ DistributivityStep \/ DistributivityReturn

SpecIndex == IndexInit /\ [][IndexNext]_vars

\* the unordered pairs of distinct intents whose union is an intent
JoinPairs(ints) ==
    {pr \in (DOMAIN ints) \X (DOMAIN ints) :
        pr[1] < pr[2] /\ (ints[pr[1]] \cup ints[pr[2]]) \in Range(ints)}
\* the pairs among them whose union is one of the first k intents
JoinPairsUpTo(ints, k) ==
    {pr \in JoinPairs(ints) : \E i \in 1 .. k : (ints[pr[1]] \cup ints[pr[2]]) = ints[i]}

\* C27: on the complete intent list of a context, with its lower covers and
\* its number of comparable pairs, the count distributivity_index reaches is
\* the number of unordered pairs of distinct intents whose union is an intent,
\* each counted once, and it never exceeds n * (n - 1) / 2; after each intent
\* of the loop the count is the comparable pairs plus the incomparable pairs
\* whose union is an intent visited so far.
C27_DistributivityCount ==
    /\ pc \in {"distributivity_index", "enumerate intents", "distributivity_index done"}
    /\ pc = "enumerate intents" =>
          n_distr = n_trans_parents
                    + Cardinality(JoinPairsUpTo(intents, intent_idx))
                    - Cardinality({pr \in JoinPairsUpTo(intents, intent_idx) :
                                      pr \in ComparablePairs(intents)})
    /\ pc = "distributivity_index done" =>
          /\ distributivity[1] = Cardinality(JoinPairs(intents))
          /\ distributivity[1] <= distributivity[2]
          /\ distributivity[2] = (Len(intents) * (Len(intents) - 1)) \div 2

\* a lattice with a pair of intents that is reached from two pairs of parents
\* of their union, and with a pair of intents whose union is not an intent
C27_Witness ==
    /\ pc = "distributivity_index done"
    /\ distributivity[1] < distributivity[2]
    /\ \E pr \in JoinPairs(intents) :
          LET top == PosOf(intents, intents[pr[1]] \cup intents[pr[2]])
          IN /\ pr \notin ComparablePairs(intents)
             /\ pr[1] \notin parents[top]
             /\ Cardinality({q \in parents[top] : StrictlyInside(intents[pr[1]], intents[q])}) >= 2

====
